---- MODULE Spec2Model ----
(***************************************************************************)
(* gotennis: Monte Carlo tennis match simulation (package sim) and the     *)
(* derivation of betting-market probabilities from the simulated matches   *)
(* (package format).                                                       *)
(*                                                                         *)
(* float64 values in [0,1] are modelled as binary fixed-point numbers with *)
(* 30 fraction bits (products and quotients round to nearest, ties to      *)
(* even, as IEEE 754 arithmetic does); random draws of                     *)
(* rand.Float64() are values of [0,1) taken from DrawSet.  Half-integer    *)
(* market lines (handicaps, totals) are modelled by twice their value.     *)
(***************************************************************************)
EXTENDS Integers, Sequences, FiniteSets, TLC

VARIABLES
    pc,             \* position of the running operation
    pA, pB,         \* point-win probabilities on serve (playerA/playerB, pA/pB, a/b)
    first,          \* simulateSet: player1ServesFirstGame
    set,            \* simulateSet: res (AGames, BGames)
    serverGame,     \* simulateSet: serverGame (1 or 2)
    gameLog,        \* simulateSet: servers of the games played so far, in order
    setsToWin,      \* simulateSingleMatch: setsToWin
    matchResult,    \* simulateSingleMatch: matchResult
    setLog,         \* simulateSingleMatch: per set, whether player A was simulateSet's player 1
    bo,             \* SimulateMatch: bo / format: bestof
    n,              \* SimulateMatch: the variadic n (<<>> when omitted)
    numSimulations, \* SimulateMatch: numSimulations
    res,            \* SimulateMatch: res / format: the sample of matches
    simCalls,       \* number of simulateSingleMatch calls made so far
    ret,            \* SimulateMatch: the returned ([]SimulatedMatch, error)
    markets,        \* deriveProbabilities: the SimulationResult
    gameProb,       \* simulateGame: the returned probability
    query,          \* handler: the query parameters p1, p2, bestof, simulations
    status,         \* handler: the HTTP status of the response (0: none written)
    requestStats,   \* main: requestStats
    requestStatsMu, \* main: the holder of requestStatsMu (0: unlocked)
    callers,        \* goroutines calling addRequestStat: position and argument
    added,          \* every stat appended to requestStats so far, in order
    clock,          \* time.Now().Unix(), as a logical clock
    memo,           \* aWinsTiebreak: memo[p1][p2] (MinusOne: not computed yet)
    tbStack,        \* aWinsTiebreak: the call stack of tiebreakProbRecursive
    tbReturn,       \* aWinsTiebreak: the value returned by the call that ended last
    tbEvals,        \* aWinsTiebreak: the points whose recurrence was evaluated, in order
    tiebreak,       \* aWinsTiebreak: its last argument, the draw and the returned bool
    readers         \* goroutines running statsHandler: position, statsCopy, summary

vars == <<pc, pA, pB, first, set, serverGame, gameLog, setsToWin, matchResult,
          setLog, bo, n, numSimulations, res, simCalls, ret, markets, gameProb,
          query, status, requestStats, requestStatsMu, callers, added, clock,
          memo, tbStack, tbReturn, tbEvals, tiebreak, readers>>

-----------------------------------------------------------------------------
(* Fixed-point arithmetic standing for float64 *)

One == 2^30
Half == One \div 2
Quarter == One \div 4

\* x * y for 0 <= x, y <= One, rounded to nearest (ties to even) as float64
\* products are; computed in 15-bit halves to stay within 32 bits
FMul(x, y) ==
    LET B == 2^15
        xh == x \div B
        xl == x % B
        yh == y \div B
        yl == y % B
        low == xl * yl
        mid == xh * yl + xl * yh + (low \div B)
        floor == xh * yh + (mid \div B)
        fracHigh == mid % B
        fracLow == low % B
        roundUp ==
            \/ fracHigh > B \div 2
            \/ fracHigh = B \div 2 /\ (fracLow > 0 \/ floor % 2 = 1)
    IN  floor + (IF roundUp THEN 1 ELSE 0)

\* the 30 fraction bits of r / y for 0 <= r < y, by long division
RECURSIVE DivBits(_, _, _, _)
DivBits(r, y, i, acc) ==
    IF i = 0 THEN acc
    ELSE IF 2 * r >= y THEN DivBits(2 * r - y, y, i - 1, 2 * acc + 1)
         ELSE DivBits(2 * r, y, i - 1, 2 * acc)

\* the remainder that long division leaves after i bits
RECURSIVE DivRem(_, _, _)
DivRem(r, y, i) == IF i = 0 THEN r ELSE DivRem((2 * r) % y, y, i - 1)

\* x / y for 0 <= x and 0 < y <= One (x, y both fixed-point or both integers),
\* rounded to nearest (ties to even)
FDiv(x, y) ==
    LET floor == (x \div y) * One + DivBits(x % y, y, 30, 0)
        rem == DivRem(x % y, y, 30)
        roundUp == 2 * rem > y \/ (2 * rem = y /\ floor % 2 = 1)
    IN  floor + (IF roundUp THEN 1 ELSE 0)
FMax(x, y) == IF x >= y THEN x ELSE y
FMin(x, y) == IF x <= y THEN x ELSE y
FAbs(x) == IF x < 0 THEN 0 - x ELSE x
\* a decimal literal k/1000 (0.001, 0.999)
Milli(k) == FDiv(k, 1000)

\* NaN: the result of 0/0 and of every operation on it; below every draw, so that
\* "r < NaN" and "NaN > r" are false for the draws r, and different from -1.0
NaN == 0 - (One + Half)

\* values rand.Float64() can return: 0 <= r < 1
DrawSet == {0, Half, One - 1}

-----------------------------------------------------------------------------
(* simulateGame: probability that the server wins a game *)

\* 1 - 2*p*(1-p)
denominatorDeuce_NoFactorTwo(p) == One - FMul(p, One - p)
denominatorDeuce(p) == One - 2 * FMul(p, One - p)

\* math.Abs(denominatorDeuce) < 1e-10; 1e-10 is below the resolution 2^-30
denominatorNearZero(p) == FAbs(denominatorDeuce(p)) < 1

pDeuceOf_Unclamped(p) ==
    IF denominatorNearZero(p)
    THEN IF p > Half THEN Milli(999)
         ELSE IF p < Half THEN Milli(1)
         ELSE Half
    ELSE FDiv(FMul(p, p), denominatorDeuce(p))
pDeuceOf(p) ==
    IF denominatorNearZero(p)
    THEN IF p > Half THEN Milli(999)
         ELSE IF p < Half THEN Milli(1)
         ELSE Half
    ELSE FMax(Milli(1), FMin(Milli(999), FDiv(FMul(p, p), denominatorDeuce(p))))

simulateGame(p) ==
    IF p = NaN THEN NaN
    ELSE
        LET pDeuce == pDeuceOf(p)
            p4 == FMul(FMul(p, p), FMul(p, p))
            p40 == p4
            p41 == 4 * FMul(p4, One - p)
            p42 == 10 * FMul(FMul(p4, One - p), One - p)
            probReachDeuce ==
                20 * FMul(FMul(FMul(p, p), p), FMul(FMul(One - p, One - p), One - p))
            probWinFromDeuce == FMul(probReachDeuce, pDeuce)
        IN  p40 + p41 + p42 + probWinFromDeuce

-----------------------------------------------------------------------------
(* aWinsTiebreak: memoized recursion over (p1, p2), capped at 30 points *)

maxTotalTiebreakPoints == 30

isPlayerAServingThisPoint_EveryPoint(totalPointsPlayed, aServesFirstPointInTiebreak) ==
    IF totalPointsPlayed % 2 = 0
    THEN aServesFirstPointInTiebreak
    ELSE ~aServesFirstPointInTiebreak
isPlayerAServingThisPoint(totalPointsPlayed, aServesFirstPointInTiebreak) ==
    IF totalPointsPlayed = 0
    THEN aServesFirstPointInTiebreak
    ELSE LET pointPairIndex == (totalPointsPlayed - 1) \div 2
         IN  IF pointPairIndex % 2 = 0
             THEN ~aServesFirstPointInTiebreak
             ELSE aServesFirstPointInTiebreak

probAWinCurrentPoint_ServeOfB(p1, p2, probAonServe, probBonServe, aFirst) ==
    IF isPlayerAServingThisPoint(p1 + p2, aFirst)
    THEN probAonServe
    ELSE probBonServe
probAWinCurrentPoint(p1, p2, probAonServe, probBonServe, aFirst) ==
    IF isPlayerAServingThisPoint(p1 + p2, aFirst)
    THEN probAonServe
    ELSE IF probBonServe = NaN THEN NaN ELSE One - probBonServe

\* res := probAWinCurrentPoint*v1 + (1.0-probAWinCurrentPoint)*v2
tiebreakRecurrence(q, v1, v2) ==
    IF q = NaN \/ v1 = NaN \/ v2 = NaN THEN NaN
    ELSE FMul(q, v1) + FMul(One - q, v2)

\* tiebreakProbRecursive(p1, p2), given the memoized values of the diagonal
\* p1 + p2 + 1 (memo1, indexed by p1 + 1)
tiebreakValue(p1, p2, memo1, probAonServe, probBonServe, aFirst) ==
    IF p1 >= 7 /\ p1 >= p2 + 2 THEN One
    ELSE IF p2 >= 7 /\ p2 >= p1 + 2 THEN 0
    ELSE IF p1 + p2 >= maxTotalTiebreakPoints THEN Half
    ELSE LET q == probAWinCurrentPoint(p1, p2, probAonServe, probBonServe, aFirst)
         IN  tiebreakRecurrence(q, memo1[p1 + 2], memo1[p1 + 1])

\* the values on the diagonal p1 + p2 = k, as a sequence indexed by p1 + 1
tiebreakDiagonal(k, memo1, probAonServe, probBonServe, aFirst) ==
    <<>> \o [i \in 1..(k + 1) |->
                tiebreakValue(i - 1, k - (i - 1), memo1, probAonServe, probBonServe, aFirst)]

\* the memo filled from the deepest diagonal up to diagonal k
RECURSIVE tiebreakMemo(_, _, _, _)
tiebreakMemo(k, probAonServe, probBonServe, aFirst) ==
    LET memo1 == IF k >= maxTotalTiebreakPoints THEN <<>>
                 ELSE tiebreakMemo(k + 1, probAonServe, probBonServe, aFirst)
    IN  IF Len(memo1) >= 0  \* the deeper diagonal is complete before it is read
        THEN tiebreakDiagonal(k, memo1, probAonServe, probBonServe, aFirst)
        ELSE <<>>

\* a NaN probability makes every point played on it, and so the root, NaN
tiebreakProbRecursive(probAonServe, probBonServe, aFirst) ==
    IF probAonServe = NaN \/ probBonServe = NaN THEN NaN
    ELSE tiebreakMemo(0, probAonServe, probBonServe, aFirst)[1]

aWinsTiebreak(probAonServe, probBonServe, aServesFirstPointInTiebreak, draw) ==
    tiebreakProbRecursive(probAonServe, probBonServe, aServesFirstPointInTiebreak) > draw

-----------------------------------------------------------------------------
(* simulateSet *)

\* point-win probabilities the set and match specifications are explored over
PGrid == {0, Half, One}

SimulatedSet(a, b) == [AGames |-> a, BGames |-> b]

\* serverGame before the first game of the set
firstServerGame(player1ServesFirstGame) ==
    IF player1ServesFirstGame THEN 1 ELSE 2

\* player1ServesFirstPointInTiebreak := player1ServesFirstGame
tiebreakFirstServer_Receiver(player1ServesFirstGame) ==
    ~player1ServesFirstGame
tiebreakFirstServer(player1ServesFirstGame) == player1ServesFirstGame

\* the tiebreak played at 6-6: the set ends 7-6 or 6-7
tiebreakGame(r, a, b, player1ServesFirstPointInTiebreak, draw) ==
    IF aWinsTiebreak(a, b, player1ServesFirstPointInTiebreak, draw)
    THEN SimulatedSet(r.AGames + 1, r.BGames)
    ELSE SimulatedSet(r.AGames, r.BGames + 1)

\* a regular game: the server wins it when the draw is below its game-win probability
regularGame(r, server, aGameWinProb, bGameWinProb, draw) ==
    LET probServerWinsGame == IF server = 1 THEN aGameWinProb ELSE bGameWinProb
    IN  IF draw < probServerWinsGame
        THEN IF server = 1
             THEN SimulatedSet(r.AGames + 1, r.BGames)
             ELSE SimulatedSet(r.AGames, r.BGames + 1)
        ELSE IF server = 1
             THEN SimulatedSet(r.AGames, r.BGames + 1)
             ELSE SimulatedSet(r.AGames + 1, r.BGames)

\* the exit test after a regular game
setIsOver_NoLead(r) == r.AGames >= 6 \/ r.BGames >= 6
setIsOver(r) ==
    (r.AGames >= 6 \/ r.BGames >= 6) /\ FAbs(r.AGames - r.BGames) >= 2

simulateSetIteration_WinnerServesNext(st, a, b, player1ServesFirstGame, aGameWinProb, bGameWinProb, draw) ==
    IF st.res.AGames = 6 /\ st.res.BGames = 6
    THEN [res |-> tiebreakGame(st.res, a, b,
                               tiebreakFirstServer(player1ServesFirstGame),
                               draw),
          serverGame |-> st.serverGame, done |-> TRUE]
    ELSE LET r == regularGame(st.res, st.serverGame, aGameWinProb, bGameWinProb, draw)
         IN  IF setIsOver(r)
             THEN [res |-> r, serverGame |-> st.serverGame, done |-> TRUE]
             ELSE [res |-> r,
                   serverGame |-> IF r.AGames > st.res.AGames THEN 1 ELSE 2,
                   done |-> FALSE]

\* one iteration of the loop of simulateSet on the loop state st; aGameWinProb
\* and bGameWinProb are computed once, before the loop
simulateSetIteration(st, a, b, player1ServesFirstGame, aGameWinProb, bGameWinProb, draw) ==
    IF st.res.AGames = 6 /\ st.res.BGames = 6
    THEN [res |-> tiebreakGame(st.res, a, b,
                               tiebreakFirstServer(player1ServesFirstGame),
                               draw),
          serverGame |-> st.serverGame, done |-> TRUE]
    ELSE LET r == regularGame(st.res, st.serverGame, aGameWinProb, bGameWinProb, draw)
         IN  IF setIsOver(r)
             THEN [res |-> r, serverGame |-> st.serverGame, done |-> TRUE]
             ELSE [res |-> r, serverGame |-> 3 - st.serverGame, done |-> FALSE]

\* the loop states reachable from those of `frontier` when the loop has run to its end
RECURSIVE simulateSetRuns(_, _, _, _, _, _)
simulateSetRuns(frontier, a, b, player1ServesFirstGame, aGameWinProb, bGameWinProb) ==
    IF \A st \in frontier : st.done
    THEN frontier
    ELSE LET after ==
                 {st \in frontier : st.done} \cup
                 {simulateSetIteration(st, a, b, player1ServesFirstGame,
                                       aGameWinProb, bGameWinProb, draw) :
                     st \in {x \in frontier : ~x.done}, draw \in DrawSet}
         IN  simulateSetRuns({st : st \in after},
                             a, b, player1ServesFirstGame, aGameWinProb, bGameWinProb)

\* every set simulateSet(a, b, player1ServesFirstGame) can return
simulateSet(a, b, player1ServesFirstGame) ==
    {st.res : st \in simulateSetRuns(
        {[res |-> SimulatedSet(0, 0),
          serverGame |-> firstServerGame(player1ServesFirstGame),
          done |-> FALSE]},
        a, b, player1ServesFirstGame, simulateGame(a), simulateGame(b))}

\* values of the variables an operation does not use
Idle == "-"

SetIdle ==
    /\ first = FALSE /\ set = SimulatedSet(0, 0) /\ serverGame = 0 /\ gameLog = <<>>
MatchIdle ==
    /\ setsToWin = 0 /\ setLog = <<>>
    /\ matchResult = [ASets |-> 0, BSets |-> 0, SetResults |-> <<>>]
SimIdle ==
    /\ bo = 0 /\ n = <<>> /\ numSimulations = 0 /\ res = <<>> /\ simCalls = 0
    /\ ret = [nil |-> TRUE, list |-> <<>>, err |-> Idle]
    /\ markets = Idle

GameIdle == gameProb = 0
NoTiebreak == [aServesFirst |-> FALSE, draw |-> 0, aWins |-> FALSE]
TiebreakIdle ==
    /\ memo = <<>> /\ tbStack = <<>> /\ tbReturn = 0 /\ tbEvals = <<>>
    /\ tiebreak = NoTiebreak
ServerIdle ==
    /\ query = Idle /\ status = 0 /\ requestStats = <<>> /\ requestStatsMu = 0
    /\ callers = <<>> /\ added = <<>> /\ clock = 0 /\ readers = <<>>

\* a call simulateSet(pA, pB, first)
InitSet ==
    /\ pc = "set_loop"
    /\ pA \in PGrid /\ pB \in PGrid
    /\ first \in BOOLEAN
    /\ set = SimulatedSet(0, 0)
    /\ serverGame = firstServerGame(first)
    /\ gameLog = <<>>
    /\ MatchIdle /\ SimIdle /\ GameIdle /\ TiebreakIdle /\ ServerIdle

SetLoopState == [res |-> set, serverGame |-> serverGame, done |-> FALSE]

\* one regular game of the set
SetGame ==
    /\ pc = "set_loop"
    /\ ~(set.AGames = 6 /\ set.BGames = 6)
    /\ \E draw \in DrawSet :
         LET st == simulateSetIteration(SetLoopState, pA, pB, first,
                                        simulateGame(pA), simulateGame(pB), draw)
         IN  /\ set' = st.res
             /\ serverGame' = st.serverGame
             /\ pc' = IF st.done THEN "set_done" ELSE "set_loop"
    /\ gameLog' = Append(gameLog, serverGame)
    /\ UNCHANGED <<pA, pB, first, setsToWin, matchResult, setLog, bo, n,
                   numSimulations, res, simCalls, ret, markets,
                   gameProb, query, status, requestStats, requestStatsMu,
                   callers, added, clock,
                   memo, tbStack, tbReturn, tbEvals, tiebreak, readers>>

\* the tiebreak at 6-6
SetTiebreak ==
    /\ pc = "set_loop"
    /\ set.AGames = 6 /\ set.BGames = 6
    /\ \E draw \in DrawSet :
         LET st == simulateSetIteration(SetLoopState, pA, pB, first,
                                        simulateGame(pA), simulateGame(pB), draw)
         IN  /\ set' = st.res
             /\ serverGame' = st.serverGame
             /\ tiebreak' = [aServesFirst |-> tiebreakFirstServer(first),
                             draw |-> draw,
                             aWins |-> st.res.AGames > set.AGames]
             /\ pc' = "set_done"
    /\ UNCHANGED <<pA, pB, first, gameLog, setsToWin, matchResult, setLog, bo, n,
                   numSimulations, res, simCalls, ret, markets,
                   gameProb, query, status, requestStats, requestStatsMu,
                   callers, added, clock,
                   memo, tbStack, tbReturn, tbEvals, readers>>

NextSet == SetGame \/ SetTiebreak

SpecSet == InitSet /\ [][NextSet]_vars

-----------------------------------------------------------------------------
(* simulateSingleMatch *)

SetsToWinSet == {2, 3}

aServesFirstGameOfSet(m) == (m.ASets + m.BSets) % 2 = 0

\* the set of the next loop iteration: simulateSet(pA, pB, true) or simulateSet(pB, pA, true)
nextSetOf(m, a, b) ==
    IF aServesFirstGameOfSet(m) THEN simulateSet(a, b, TRUE) ELSE simulateSet(b, a, TRUE)

\* the match after the simulated set s is counted and appended
matchAfterSet_Player1IsA(m, s) ==
    [ASets |-> IF s.AGames > s.BGames THEN m.ASets + 1 ELSE m.ASets,
     BSets |-> IF s.AGames > s.BGames THEN m.BSets ELSE m.BSets + 1,
     SetResults |-> Append(m.SetResults, s)]
matchAfterSet(m, s) ==
    LET aWon == IF s.AGames > s.BGames
                THEN aServesFirstGameOfSet(m)
                ELSE ~aServesFirstGameOfSet(m)
    IN  [ASets |-> IF aWon THEN m.ASets + 1 ELSE m.ASets,
         BSets |-> IF aWon THEN m.BSets ELSE m.BSets + 1,
         SetResults |-> Append(m.SetResults, s)]

matchIsOver_SetsPlayed(m, toWin) == m.ASets + m.BSets = toWin
matchIsOver_OneSetLate(m, toWin) == m.ASets = toWin + 1 \/ m.BSets = toWin + 1
matchIsOver(m, toWin) == m.ASets = toWin \/ m.BSets = toWin

\* the matches reachable from those of `frontier` when the loop has run to its end;
\* setsA and setsB are the sets simulateSet can return with A, resp. B, as player 1
RECURSIVE simulateSingleMatchRuns(_, _, _, _)
simulateSingleMatchRuns(frontier, setsA, setsB, toWin) ==
    IF \A m \in frontier : matchIsOver(m, toWin)
    THEN frontier
    ELSE LET after ==
                 {m \in frontier : matchIsOver(m, toWin)} \cup
                 UNION {{matchAfterSet(m, s) :
                            s \in IF aServesFirstGameOfSet(m) THEN setsA ELSE setsB} :
                        m \in {x \in frontier : ~matchIsOver(x, toWin)}}
         IN  simulateSingleMatchRuns({m : m \in after}, setsA, setsB, toWin)

\* every match simulateSingleMatch(a, b, toWin) can return
simulateSingleMatch(a, b, toWin) ==
    LET setsA == {s : s \in simulateSet(a, b, TRUE)}
        setsB == {s : s \in simulateSet(b, a, TRUE)}
    IN  simulateSingleMatchRuns(
            {[ASets |-> 0, BSets |-> 0, SetResults |-> <<>>]}, setsA, setsB, toWin)

\* the calls explored: every pair of probabilities at setsToWin = 2; at setsToWin = 3
\* the pairs in which at most one player's service games can go either way
MatchInputs ==
    {<<a, b, 2>> : a \in PGrid, b \in PGrid} \cup
    {<<a, b, 3>> : a \in {0, One}, b \in PGrid}

\* a call simulateSingleMatch(pA, pB, setsToWin)
InitMatch ==
    /\ pc = "match_loop"
    /\ pA \in PGrid /\ pB \in PGrid
    /\ setsToWin \in SetsToWinSet
    /\ <<pA, pB, setsToWin>> \in MatchInputs
    /\ matchResult = [ASets |-> 0, BSets |-> 0, SetResults |-> <<>>]
    /\ setLog = <<>>
    /\ SetIdle /\ SimIdle /\ GameIdle /\ TiebreakIdle /\ ServerIdle

\* one loop iteration that simulates a set
MatchSet ==
    /\ pc = "match_loop"
    /\ ~matchIsOver(matchResult, setsToWin)
    /\ \E s \in nextSetOf(matchResult, pA, pB) :
         matchResult' = matchAfterSet(matchResult, s)
    /\ setLog' = Append(setLog, aServesFirstGameOfSet(matchResult))
    /\ UNCHANGED <<pc, pA, pB, first, set, serverGame, gameLog, setsToWin, bo, n,
                   numSimulations, res, simCalls, ret, markets,
                   gameProb, query, status, requestStats, requestStatsMu,
                   callers, added, clock,
                   memo, tbStack, tbReturn, tbEvals, tiebreak, readers>>

\* the loop iteration that returns matchResult
MatchReturn ==
    /\ pc = "match_loop"
    /\ matchIsOver(matchResult, setsToWin)
    /\ pc' = "match_done"
    /\ UNCHANGED <<pA, pB, first, set, serverGame, gameLog, setsToWin, matchResult,
                   setLog, bo, n, numSimulations, res, simCalls, ret, markets,
                   gameProb, query, status, requestStats, requestStatsMu,
                   callers, added, clock,
                   memo, tbStack, tbReturn, tbEvals, tiebreak, readers>>

NextMatch == MatchSet \/ MatchReturn

SpecMatch == InitMatch /\ [][NextMatch]_vars

-----------------------------------------------------------------------------
(* package format: market probabilities of a sample of matches *)

\* float64(k) / float64(len) for integers 0 <= k <= len
ratio_ZeroOnEmpty(k, len) == IF len = 0 THEN 0 ELSE FDiv(k, len)
ratio(k, len) == IF len = 0 THEN NaN ELSE FDiv(k, len)
\* 1 - x
complement(x) == IF x = NaN THEN NaN ELSE One - x

\* the counting loops: the number of TRUE entries of hits from index i on
RECURSIVE countFrom(_, _)
countFrom(hits, i) ==
    IF i > Len(hits) THEN 0
    ELSE (IF hits[i] THEN 1 ELSE 0) + countFrom(hits, i + 1)

\* twice the game spreads 8.5 and 12.5
BO3_GAME_SPREAD == 17
BO5_GAME_SPREAD == 25

mapBOToGameSpread(bestof) ==
    IF bestof = 3 THEN BO3_GAME_SPREAD
    ELSE IF bestof = 5 THEN BO5_GAME_SPREAD
    ELSE 0

\* fmt.Sprintf("%.1f", x) for the half-integer or integer x = x2/2
Sprintf1f(x2) ==
    (IF x2 < 0 THEN "-" ELSE "")
        \o ToString(FAbs(x2) \div 2) \o "." \o (IF x2 % 2 = 1 THEN "5" ELSE "0")

\* the Line label: "ml" for the moneyline, the formatted line otherwise
lineLabel(market, line2) == IF market = "ML" THEN "ml" ELSE Sprintf1f(line2)

Probability_NoProbB(market, line2, k, len) ==
    [Market |-> market, Line |-> lineLabel(market, line2), Line2 |-> line2,
     ProbA |-> ratio(k, len), ProbB |-> ratio(0, len)]
Probability(market, line2, k, len) ==
    [Market |-> market, Line |-> lineLabel(market, line2), Line2 |-> line2,
     ProbA |-> ratio(k, len), ProbB |-> complement(ratio(k, len))]

GetMoneyline_CountsTies(sim) ==
    Probability("ML", 0, countFrom([i \in 1..Len(sim) |-> sim[i].ASets >= sim[i].BSets], 1), Len(sim))
GetMoneyline(sim) ==
    Probability("ML", 0, countFrom([i \in 1..Len(sim) |-> sim[i].ASets > sim[i].BSets], 1), Len(sim))

RECURSIVE getMatchGames(_)
getMatchGames(setResults) ==
    IF setResults = <<>> THEN <<0, 0>>
    ELSE LET rest == getMatchGames(Tail(setResults))
         IN  <<Head(setResults).AGames + rest[1], Head(setResults).BGames + rest[2]>>

\* the values i2/2 of a loop "for i := lo; i <= hi; i++" over half-integers, doubled
lineRange(lo2, hi2) ==
    IF hi2 < lo2 THEN <<>>
    ELSE [k \in 1..((hi2 - lo2) \div 2 + 1) |-> lo2 + 2 * (k - 1)]

getGameHandicap_SidesSwapped(sim, handicap2) ==
    Probability("AH", handicap2,
        countFrom([i \in 1..Len(sim) |->
            LET g == getMatchGames(sim[i].SetResults)
            IN  2 * g[2] + handicap2 > 2 * g[1]], 1),
        Len(sim))
getGameHandicap(sim, handicap2) ==
    Probability("AH", handicap2,
        countFrom([i \in 1..Len(sim) |->
            LET g == getMatchGames(sim[i].SetResults)
            IN  2 * g[1] + handicap2 > 2 * g[2]], 1),
        Len(sim))

GetGameHandicaps(sim, bestof) ==
    LET r == mapBOToGameSpread(bestof)
        lines == lineRange(0 - r, r)
    IN  [k \in 1..Len(lines) |-> getGameHandicap(sim, lines[k])]

getGameTotal_GreaterEqual(results, total2) ==
    Probability("OU", total2,
        countFrom([i \in 1..Len(results) |->
            LET g == getMatchGames(results[i].SetResults)
            IN  2 * (g[1] + g[2]) >= total2], 1),
        Len(results))
getGameTotal_Under(results, total2) ==
    Probability("OU", total2,
        countFrom([i \in 1..Len(results) |->
            LET g == getMatchGames(results[i].SetResults)
            IN  2 * (g[1] + g[2]) < total2], 1),
        Len(results))
getGameTotal(results, total2) ==
    Probability("OU", total2,
        countFrom([i \in 1..Len(results) |->
            LET g == getMatchGames(results[i].SetResults)
            IN  2 * (g[1] + g[2]) > total2], 1),
        Len(results))

GetGameTotals_ShortRange(results, bestof) ==
    LET lines == lineRange((bestof \div 2 + 1) * 12 + 1, bestof * 6 * 2 * 2 - 1)
    IN  [k \in 1..Len(lines) |-> getGameTotal(results, lines[k])]
GetGameTotals(results, bestof) ==
    LET lines == lineRange((bestof \div 2 + 1) * 12 + 1, bestof * 6 * 2 * 2 + 1)
    IN  [k \in 1..Len(lines) |-> getGameTotal(results, lines[k])]

getSetHandicap_GreaterEqual(results, handicap2) ==
    Probability("AH", handicap2,
        countFrom([i \in 1..Len(results) |-> 2 * results[i].ASets + handicap2 >= 2 * results[i].BSets], 1),
        Len(results))
getSetHandicap_SidesSwapped(results, handicap2) ==
    Probability("AH", handicap2,
        countFrom([i \in 1..Len(results) |-> 2 * results[i].BSets + handicap2 > 2 * results[i].ASets], 1),
        Len(results))
getSetHandicap(results, handicap2) ==
    Probability("AH", handicap2,
        countFrom([i \in 1..Len(results) |-> 2 * results[i].ASets + handicap2 > 2 * results[i].BSets], 1),
        Len(results))

GetSetHandicaps_AlwaysBestOfFive(results, bestof) ==
    LET lines == lineRange(0 - 5, 5)
    IN  [k \in 1..Len(lines) |-> getSetHandicap(results, lines[k])]
GetSetHandicaps(results, bestof) ==
    LET lines == IF bestof = 3 THEN lineRange(0 - 3, 3) ELSE lineRange(0 - 5, 5)
    IN  [k \in 1..Len(lines) |-> getSetHandicap(results, lines[k])]

getSetTotal(results, total2) ==
    Probability("OU", total2,
        countFrom([i \in 1..Len(results) |-> 2 * (results[i].ASets + results[i].BSets) > total2], 1),
        Len(results))

GetSetTotals(results, bestof) ==
    IF bestof = 3 THEN <<getSetTotal(results, 5)>>
    ELSE LET lines == lineRange(7, 9)
         IN  [k \in 1..Len(lines) |-> getSetTotal(results, lines[k])]

deriveProbabilities(match, bestof) ==
    [Moneyline |-> GetMoneyline(match),
     SetHandicaps |-> GetSetHandicaps(match, bestof),
     GameHandicaps |-> GetGameHandicaps(match, bestof),
     SetOU |-> GetSetTotals(match, bestof),
     GameOU |-> GetGameTotals(match, bestof)]

-----------------------------------------------------------------------------
(* SimulateMatch followed by deriveProbabilities *)

\* largest sample size explored
MaxN == 2

defaultSimulations == 1000000

BoSet == 1..7
NArgs == {<<>>} \cup {<<k>> : k \in (0 - 1)..MaxN}
\* probabilities of the calls of SimulateMatch explored: every game is decided by
\* its server, so that the set scores are decided by the tiebreak draws alone
SimGrid == {0, One}

\* the calls explored: every pair of probabilities with every bo but 5, and with
\* bo = 5 the pairs that decide every set without a tiebreak
SimInputs ==
    {<<a, b, b0>> : a \in SimGrid, b \in SimGrid, b0 \in BoSet \ {5}}
        \cup {<<a, One - a, 5>> : a \in SimGrid}

ErrNil == "nil"

\* the test that makes SimulateMatch return its error
invalidNumberOfSets_OddOnly(b) == b % 2 = 0
invalidNumberOfSets(b) == b # 3 /\ b # 5

\* numSimulations for the variadic argument nArg
simulationCount_ZeroAccepted(nArg) ==
    IF Len(nArg) > 0 /\ nArg[1] >= 0 THEN nArg[1] ELSE defaultSimulations
simulationCount(nArg) ==
    IF Len(nArg) > 0 /\ nArg[1] > 0 THEN nArg[1] ELSE defaultSimulations

InitSim ==
    /\ pc = "sim_call"
    /\ \E call \in SimInputs : pA = call[1] /\ pB = call[2] /\ bo = call[3]
    /\ n \in NArgs
    /\ numSimulations = 0 /\ res = <<>> /\ simCalls = 0
    /\ ret = [nil |-> TRUE, list |-> <<>>, err |-> Idle]
    /\ markets = Idle
    /\ SetIdle /\ MatchIdle /\ GameIdle /\ TiebreakIdle /\ ServerIdle

\* SimulateMatch with bo not 3 or 5: the error return
SimulateMatchInvalid ==
    /\ pc = "sim_call"
    /\ invalidNumberOfSets(bo)
    /\ ret' = [nil |-> TRUE, list |-> <<>>, err |-> "invalid number of sets"]
    /\ pc' = "sim_failed"
    /\ UNCHANGED <<pA, pB, first, set, serverGame, gameLog, setsToWin, matchResult,
                   setLog, bo, n, numSimulations, res, simCalls, markets,
                   gameProb, query, status, requestStats, requestStatsMu,
                   callers, added, clock,
                   memo, tbStack, tbReturn, tbEvals, tiebreak, readers>>

\* SimulateMatch with bo 3 or 5, up to the loop
SimulateMatchStart ==
    /\ pc = "sim_call"
    /\ ~invalidNumberOfSets(bo)
    /\ setsToWin' = (bo \div 2) + 1
    /\ numSimulations' = simulationCount(n)
    /\ res' = <<>>
    /\ pc' = "sim_loop"
    /\ UNCHANGED <<pA, pB, first, set, serverGame, gameLog, matchResult, setLog,
                   bo, n, simCalls, ret, markets,
                   gameProb, query, status, requestStats, requestStatsMu,
                   callers, added, clock,
                   memo, tbStack, tbReturn, tbEvals, tiebreak, readers>>

\* one iteration of "for range numSimulations" (explored up to MaxN matches)
SimulateMatchIteration ==
    /\ pc = "sim_loop"
    /\ Len(res) < numSimulations
    /\ Len(res) < MaxN
    /\ \E m \in simulateSingleMatch(pA, pB, setsToWin) : res' = Append(res, m)
    /\ simCalls' = simCalls + 1
    /\ UNCHANGED <<pc, pA, pB, first, set, serverGame, gameLog, setsToWin,
                   matchResult, setLog, bo, n, numSimulations, ret, markets,
                   gameProb, query, status, requestStats, requestStatsMu,
                   callers, added, clock,
                   memo, tbStack, tbReturn, tbEvals, tiebreak, readers>>

\* the loop is over: return res, nil
SimulateMatchReturn ==
    /\ pc = "sim_loop"
    /\ Len(res) = numSimulations
    /\ ret' = [nil |-> FALSE, list |-> res, err |-> ErrNil]
    /\ pc' = "derive"
    /\ UNCHANGED <<pA, pB, first, set, serverGame, gameLog, setsToWin, matchResult,
                   setLog, bo, n, numSimulations, res, simCalls, markets,
                   gameProb, query, status, requestStats, requestStatsMu,
                   callers, added, clock,
                   memo, tbStack, tbReturn, tbEvals, tiebreak, readers>>

\* deriveProbabilities(res, bo)
DeriveProbabilities ==
    /\ pc = "derive"
    /\ markets' = deriveProbabilities(res, bo)
    /\ pc' = "derived"
    /\ UNCHANGED <<pA, pB, first, set, serverGame, gameLog, setsToWin, matchResult,
                   setLog, bo, n, numSimulations, res, simCalls, ret,
                   gameProb, query, status, requestStats, requestStatsMu,
                   callers, added, clock,
                   memo, tbStack, tbReturn, tbEvals, tiebreak, readers>>

Next ==
    \/ SimulateMatchInvalid
    \/ SimulateMatchStart
    \/ SimulateMatchIteration
    \/ SimulateMatchReturn
    \/ DeriveProbabilities

Spec == InitSim /\ [][Next]_vars

-----------------------------------------------------------------------------
(* deriveProbabilities on samples handed to package format directly *)

\* largest sample explored
MaxSample == 2

Match(a, b, sets) == [ASets |-> a, BSets |-> b, SetResults |-> sets]

\* the matches of the samples: those of format_test.go, matches returned by
\* simulateSingleMatch, and values of the struct no simulation returns
FormatMatches ==
    {Match(2, 1, <<SimulatedSet(6, 4), SimulatedSet(4, 6), SimulatedSet(6, 3)>>),
     Match(2, 0, <<SimulatedSet(6, 2), SimulatedSet(6, 1)>>),
     Match(0, 2, <<SimulatedSet(3, 6), SimulatedSet(2, 6)>>),
     Match(2, 1, <<SimulatedSet(7, 6), SimulatedSet(3, 6), SimulatedSet(6, 4)>>),
     Match(2, 0, <<SimulatedSet(6, 0), SimulatedSet(0, 6)>>),
     Match(3, 0, <<SimulatedSet(6, 0), SimulatedSet(0, 6), SimulatedSet(6, 0)>>),
     Match(0, 3, <<SimulatedSet(0, 6), SimulatedSet(6, 0), SimulatedSet(0, 6)>>),
     Match(3, 2, <<SimulatedSet(6, 4), SimulatedSet(3, 6), SimulatedSet(7, 6),
                   SimulatedSet(4, 6), SimulatedSet(6, 2)>>),
     Match(1, 3, <<SimulatedSet(4, 6), SimulatedSet(6, 3), SimulatedSet(2, 6),
                   SimulatedSet(6, 7)>>),
     Match(1, 1, <<SimulatedSet(6, 4), SimulatedSet(4, 6)>>),
     Match(0, 0, <<>>)}

FormatSamples == UNION {[1..k -> FormatMatches] : k \in 0..MaxSample}

InitFormat ==
    /\ pc = "derive"
    /\ bo \in {3, 5}
    /\ res \in FormatSamples
    /\ pA = 0 /\ pB = 0
    /\ n = <<>> /\ numSimulations = 0 /\ simCalls = 0
    /\ ret = [nil |-> TRUE, list |-> <<>>, err |-> Idle]
    /\ markets = Idle
    /\ SetIdle /\ MatchIdle /\ GameIdle /\ TiebreakIdle /\ ServerIdle

NextFormat == DeriveProbabilities

SpecFormat == InitFormat /\ [][NextFormat]_vars

-----------------------------------------------------------------------------
(* simulateGame as a function of p *)

\* the point-win probabilities explored are the multiples of 1/GridSteps in [0,1],
\* and 0.5
GridSteps == 1000
GameGrid == {FDiv(k, GridSteps) : k \in 0..GridSteps} \cup {Half}

\* a call simulateGame(pA)
InitGame ==
    /\ pc = "game_call"
    /\ pA \in GameGrid
    /\ pB = 0
    /\ gameProb = 0
    /\ SetIdle /\ MatchIdle /\ SimIdle /\ TiebreakIdle /\ ServerIdle

SimulateGame ==
    /\ pc = "game_call"
    /\ gameProb' = simulateGame(pA)
    /\ pc' = "game_done"
    /\ UNCHANGED <<pA, pB, first, set, serverGame, gameLog, setsToWin, matchResult,
                   setLog, bo, n, numSimulations, res, simCalls, ret, markets,
                   query, status, requestStats, requestStatsMu, callers, added,
                   clock,
                   memo, tbStack, tbReturn, tbEvals, tiebreak, readers>>

NextGame == SimulateGame

SpecGame == InitGame /\ [][NextGame]_vars

-----------------------------------------------------------------------------
(* aWinsTiebreak step by step: the calls of tiebreakProbRecursive and the memo *)

\* the value memo[i][j] is initialised to
MinusOne == 0 - One

\* point-win probabilities the tiebreak is explored over
TiebreakGrid == PGrid \cup {Quarter, NaN}

\* memo after "memo[i][j] = -1.0" for i, j in 0..maxTotalTiebreakPoints
emptyMemo ==
    [i \in 0..maxTotalTiebreakPoints |-> [j \in 0..maxTotalTiebreakPoints |-> MinusOne]]

\* the frame of a call tiebreakProbRecursive(p1, p2); v1 is the value its first
\* recursive call returned
Frame(p1, p2) == [p1 |-> p1, p2 |-> p2, stage |-> "enter", v1 |-> 0]

top == tbStack[Len(tbStack)]
pop == SubSeq(tbStack, 1, Len(tbStack) - 1)

aWonTiebreak(p1, p2) == p1 >= 7 /\ p1 >= p2 + 2
bWonTiebreak(p1, p2) == p2 >= 7 /\ p2 >= p1 + 2

\* memo[p1][p2] = res
memoStore_Never(m, p1, p2, v) == m
memoStore(m, p1, p2, v) == [m EXCEPT ![p1][p2] = v]

\* the totalPointsPlayed >= maxTotalTiebreakPoints test
reachedCap_Never(totalPointsPlayed) == FALSE
reachedCap(totalPointsPlayed) == totalPointsPlayed >= maxTotalTiebreakPoints

\* a call aWinsTiebreak(pA, pB, first): the memo is filled with -1.0 and
\* tiebreakProbRecursive(0, 0) is called
InitTiebreak ==
    /\ pc = "tb_call"
    /\ pA \in TiebreakGrid /\ pB \in TiebreakGrid
    /\ first \in BOOLEAN
    /\ memo = emptyMemo
    /\ tbStack = <<Frame(0, 0)>>
    /\ tbReturn = 0
    /\ tbEvals = <<>>
    /\ tiebreak = NoTiebreak
    /\ set = SimulatedSet(0, 0) /\ serverGame = 0 /\ gameLog = <<>>
    /\ MatchIdle /\ SimIdle /\ GameIdle /\ ServerIdle

\* "if memo[p1][p2] != -1.0 { return memo[p1][p2] }"
TbMemoHit ==
    /\ pc = "tb_call" /\ tbStack # <<>> /\ top.stage = "enter"
    /\ memo[top.p1][top.p2] # MinusOne
    /\ tbReturn' = memo[top.p1][top.p2]
    /\ tbStack' = pop
    /\ UNCHANGED <<pc, pA, pB, first, set, serverGame, gameLog, setsToWin,
                   matchResult, setLog, bo, n, numSimulations, res, simCalls, ret,
                   markets, gameProb, query, status, requestStats, requestStatsMu,
                   callers, added, clock, memo, tbEvals, tiebreak, readers>>

\* a decided tiebreak: return 1.0 or 0.0, nothing memoized
TbTerminal ==
    /\ pc = "tb_call" /\ tbStack # <<>> /\ top.stage = "enter"
    /\ memo[top.p1][top.p2] = MinusOne
    /\ aWonTiebreak(top.p1, top.p2) \/ bWonTiebreak(top.p1, top.p2)
    /\ tbReturn' = IF aWonTiebreak(top.p1, top.p2) THEN One ELSE 0
    /\ tbStack' = pop
    /\ UNCHANGED <<pc, pA, pB, first, set, serverGame, gameLog, setsToWin,
                   matchResult, setLog, bo, n, numSimulations, res, simCalls, ret,
                   markets, gameProb, query, status, requestStats, requestStatsMu,
                   callers, added, clock, memo, tbEvals, tiebreak, readers>>

\* the depth cap: memo[p1][p2] = 0.5; return 0.5
TbCap ==
    /\ pc = "tb_call" /\ tbStack # <<>> /\ top.stage = "enter"
    /\ memo[top.p1][top.p2] = MinusOne
    /\ ~aWonTiebreak(top.p1, top.p2) /\ ~bWonTiebreak(top.p1, top.p2)
    /\ reachedCap(top.p1 + top.p2)
    /\ memo' = memoStore(memo, top.p1, top.p2, Half)
    /\ tbReturn' = Half
    /\ tbStack' = pop
    /\ UNCHANGED <<pc, pA, pB, first, set, serverGame, gameLog, setsToWin,
                   matchResult, setLog, bo, n, numSimulations, res, simCalls, ret,
                   markets, gameProb, query, status, requestStats, requestStatsMu,
                   callers, added, clock, tbEvals, tiebreak, readers>>

\* the first recursive call, tiebreakProbRecursive(p1+1, p2)
TbFirstCall ==
    /\ pc = "tb_call" /\ tbStack # <<>> /\ top.stage = "enter"
    /\ memo[top.p1][top.p2] = MinusOne
    /\ ~aWonTiebreak(top.p1, top.p2) /\ ~bWonTiebreak(top.p1, top.p2)
    /\ ~reachedCap(top.p1 + top.p2)
    /\ tbStack' = Append([tbStack EXCEPT ![Len(tbStack)].stage = "first"],
                         Frame(top.p1 + 1, top.p2))
    /\ UNCHANGED <<pc, pA, pB, first, set, serverGame, gameLog, setsToWin,
                   matchResult, setLog, bo, n, numSimulations, res, simCalls, ret,
                   markets, gameProb, query, status, requestStats, requestStatsMu,
                   callers, added, clock, memo, tbReturn, tbEvals, tiebreak, readers>>

\* the first call has returned: the second one, tiebreakProbRecursive(p1, p2+1)
TbSecondCall ==
    /\ pc = "tb_call" /\ tbStack # <<>> /\ top.stage = "first"
    /\ tbStack' = Append([tbStack EXCEPT ![Len(tbStack)] =
                             [top EXCEPT !.stage = "second", !.v1 = tbReturn]],
                         Frame(top.p1, top.p2 + 1))
    /\ UNCHANGED <<pc, pA, pB, first, set, serverGame, gameLog, setsToWin,
                   matchResult, setLog, bo, n, numSimulations, res, simCalls, ret,
                   markets, gameProb, query, status, requestStats, requestStatsMu,
                   callers, added, clock, memo, tbReturn, tbEvals, tiebreak, readers>>

\* both calls have returned: res is computed, memoized and returned
TbMemoize ==
    /\ pc = "tb_call" /\ tbStack # <<>> /\ top.stage = "second"
    /\ LET q == probAWinCurrentPoint(top.p1, top.p2, pA, pB, first)
           result == tiebreakRecurrence(q, top.v1, tbReturn)
       IN  /\ memo' = memoStore(memo, top.p1, top.p2, result)
           /\ tbReturn' = result
           /\ tbEvals' = Append(tbEvals,
                  [p1 |-> top.p1, p2 |-> top.p2,
                   aServes |-> isPlayerAServingThisPoint(top.p1 + top.p2, first),
                   q |-> q])
    /\ tbStack' = pop
    /\ UNCHANGED <<pc, pA, pB, first, set, serverGame, gameLog, setsToWin,
                   matchResult, setLog, bo, n, numSimulations, res, simCalls, ret,
                   markets, gameProb, query, status, requestStats, requestStatsMu,
                   callers, added, clock, tiebreak, readers>>

\* return tiebreakProbRecursive(0, 0) > rand.Float64()
TiebreakReturn ==
    /\ pc = "tb_call" /\ tbStack = <<>>
    /\ \E draw \in DrawSet :
         tiebreak' = [aServesFirst |-> first, draw |-> draw, aWins |-> tbReturn > draw]
    /\ pc' = "tb_done"
    /\ UNCHANGED <<pA, pB, first, set, serverGame, gameLog, setsToWin,
                   matchResult, setLog, bo, n, numSimulations, res, simCalls, ret,
                   markets, gameProb, query, status, requestStats, requestStatsMu,
                   callers, added, clock, memo, tbStack, tbReturn, tbEvals, readers>>

NextTiebreak ==
    \/ TbMemoHit
    \/ TbTerminal
    \/ TbCap
    \/ TbFirstCall
    \/ TbSecondCall
    \/ TbMemoize
    \/ TiebreakReturn

SpecTiebreak == InitTiebreak /\ [][NextTiebreak]_vars

\* the call runs on: a step that can be taken is taken
SpecTiebreakFair == SpecTiebreak /\ WF_vars(NextTiebreak)

-----------------------------------------------------------------------------
(* main: requestStats and the HTTP handler *)

maxStats == 1000

RequestStat(timestamp, simulations, success) ==
    [Timestamp |-> timestamp, Simulations |-> simulations,
     Success |-> success, Error |-> 1 - success]

\* addRequestStat: "if len(requestStats) >= maxStats { requestStats = requestStats[1:] }"
evictOldest_WhenOver(stats) == IF Len(stats) > maxStats THEN Tail(stats) ELSE stats
evictOldest(stats) == IF Len(stats) >= maxStats THEN Tail(stats) ELSE stats

\* the body of addRequestStat, run with requestStatsMu held
addRequestStat(stats, stat) == Append(evictOldest(stats), stat)

StatusOK == 200
StatusBadRequest == 400
StatusInternalServerError == 500

\* the values of the query parameters explored ("" when the parameter is missing)
FloatParams == {"", "abc", "-0.5", "0", "1", "1.5", "NaN"}
BestofParams == {"", "abc", "2", "3", "5"}
SimulationsParams == {"", "abc", "-1", "0", "1", "2"}

\* strconv.ParseFloat(str, 64) on the strings of FloatParams
ParseFloat(str) ==
    CASE str = "0" -> [val |-> 0, err |-> FALSE]
      [] str = "1" -> [val |-> One, err |-> FALSE]
      [] str = "-0.5" -> [val |-> 0 - Half, err |-> FALSE]
      [] str = "1.5" -> [val |-> One + Half, err |-> FALSE]
      [] str = "NaN" -> [val |-> NaN, err |-> FALSE]
      [] OTHER -> [val |-> 0, err |-> TRUE]

\* strconv.Atoi(str) on the strings of BestofParams and SimulationsParams
Atoi(str) ==
    CASE str = "-1" -> [val |-> 0 - 1, err |-> FALSE]
      [] str = "0" -> [val |-> 0, err |-> FALSE]
      [] str = "1" -> [val |-> 1, err |-> FALSE]
      [] str = "2" -> [val |-> 2, err |-> FALSE]
      [] str = "3" -> [val |-> 3, err |-> FALSE]
      [] str = "5" -> [val |-> 5, err |-> FALSE]
      [] OTHER -> [val |-> 0, err |-> TRUE]

\* x < y on float64: false when either side is NaN
FLess(x, y) == x # NaN /\ y # NaN /\ x < y

ErrParse == "invalid query parameters: parse error"
ErrBestof == "invalid bestof value: must be 3 or 5"
ErrRange == "probabilities must be between 0 and 1"

validateInputs_AnyBestof(p1, p2, bestof, err1, err2, err3) ==
    IF err1 \/ err2 \/ err3 THEN ErrParse
    ELSE IF FLess(p1, 0) \/ FLess(One, p1) \/ FLess(p2, 0) \/ FLess(One, p2)
    THEN ErrRange
    ELSE ErrNil
validateInputs(p1, p2, bestof, err1, err2, err3) ==
    IF err1 \/ err2 \/ err3 THEN ErrParse
    ELSE IF bestof # 3 /\ bestof # 5 THEN ErrBestof
    ELSE IF FLess(p1, 0) \/ FLess(One, p1) \/ FLess(p2, 0) \/ FLess(One, p2)
    THEN ErrRange
    ELSE ErrNil

\* handler: the simulations it asks for
handlerDefaultSimulations == 1000000
simulationsOf(simulationsStr) ==
    IF simulationsStr # "" /\ ~Atoi(simulationsStr).err /\ Atoi(simulationsStr).val > 0
    THEN Atoi(simulationsStr).val
    ELSE handlerDefaultSimulations

\* handler: err := validateInputs(p1, p2, bestof, err1, err2, err3)
validationOf(q) ==
    validateInputs(ParseFloat(q.p1).val, ParseFloat(q.p2).val, Atoi(q.bestof).val,
                   ParseFloat(q.p1).err, ParseFloat(q.p2).err, Atoi(q.bestof).err)

\* a request to "/"
InitHandler ==
    /\ pc = "handler"
    /\ query \in [p1 : FloatParams, p2 : FloatParams, bestof : BestofParams,
                  simulations : SimulationsParams]
    /\ status = 0
    /\ requestStats = <<>> /\ requestStatsMu = 0 /\ callers = <<>> /\ added = <<>>
    /\ clock = 0
    /\ pA = 0 /\ pB = 0
    /\ SetIdle /\ MatchIdle /\ SimIdle /\ GameIdle /\ TiebreakIdle
    /\ readers = <<>>

\* validateInputs returns an error: http.Error and return
HandlerReject ==
    /\ pc = "handler"
    /\ validationOf(query) # ErrNil
    /\ status' = IF validationOf(query) = ErrBestof THEN StatusInternalServerError
                 ELSE StatusBadRequest
    /\ pc' = "responded"
    /\ UNCHANGED <<pA, pB, first, set, serverGame, gameLog, setsToWin, matchResult,
                   setLog, bo, n, numSimulations, res, simCalls, ret, markets,
                   gameProb, query, requestStats, requestStatsMu, callers, added,
                   clock,
                   memo, tbStack, tbReturn, tbEvals, tiebreak, readers>>

\* validateInputs returns nil: the handler calls sim.SimulateMatch
HandlerAccept ==
    /\ pc = "handler"
    /\ validationOf(query) = ErrNil
    /\ pA' = ParseFloat(query.p1).val
    /\ pB' = ParseFloat(query.p2).val
    /\ bo' = Atoi(query.bestof).val
    /\ n' = <<simulationsOf(query.simulations)>>
    /\ pc' = "sim_call"
    /\ UNCHANGED <<first, set, serverGame, gameLog, setsToWin, matchResult, setLog,
                   numSimulations, res, simCalls, ret, markets, gameProb, query,
                   status, requestStats, requestStatsMu, callers, added, clock,
                   memo, tbStack, tbReturn, tbEvals, tiebreak, readers>>

\* the response is written and the request is recorded (SimulateMatch cannot fail
\* here: validateInputs has let only bestof 3 and 5 through)
HandlerRespond ==
    /\ pc = "derived"
    /\ status' = StatusOK
    /\ LET stat == RequestStat(clock, numSimulations, 1)
       IN  /\ requestStats' = addRequestStat(requestStats, stat)
           /\ added' = Append(added, stat)
    /\ clock' = clock + 1
    /\ pc' = "responded"
    /\ UNCHANGED <<pA, pB, first, set, serverGame, gameLog, setsToWin, matchResult,
                   setLog, bo, n, numSimulations, res, simCalls, ret, markets,
                   gameProb, query, requestStatsMu, callers,
                   memo, tbStack, tbReturn, tbEvals, tiebreak, readers>>

NextHandler ==
    \/ HandlerReject
    \/ HandlerAccept
    \/ SimulateMatchStart
    \/ SimulateMatchIteration
    \/ SimulateMatchReturn
    \/ DeriveProbabilities
    \/ HandlerRespond

SpecHandler == InitHandler /\ [][NextHandler]_vars

-----------------------------------------------------------------------------
(* goroutines of concurrent requests calling addRequestStat *)

Callers == {1, 2}
\* calls of addRequestStat explored
MaxAdds == 3
\* requestStats when the exploration starts: empty, one below capacity, full
PrefillLengths == {0, maxStats - 1, maxStats}
Prefilled(len) == [i \in 1..len |-> RequestStat(i, handlerDefaultSimulations, 1)]
NoStat == RequestStat(0, 0, 0)

InitStats ==
    /\ pc = "stats"
    /\ \E len \in PrefillLengths :
         /\ requestStats = Prefilled(len)
         /\ added = Prefilled(len)
    /\ clock = maxStats + 1
    /\ requestStatsMu = 0
    /\ callers = [c \in Callers |-> [pc |-> "idle", stat |-> NoStat]]
    /\ query = Idle /\ status = 0
    /\ pA = 0 /\ pB = 0
    /\ SetIdle /\ MatchIdle /\ SimIdle /\ GameIdle /\ TiebreakIdle
    /\ readers = <<>>

\* a handler builds its stat (Timestamp: time.Now().Unix()) and calls addRequestStat
StatCall(c) ==
    /\ callers[c].pc = "idle"
    /\ clock <= maxStats + MaxAdds
    /\ \E success \in {0, 1} :
         callers' = [callers EXCEPT ![c] =
             [pc |-> "lock",
              stat |-> RequestStat(clock, handlerDefaultSimulations, success)]]
    /\ clock' = clock + 1
    /\ UNCHANGED <<pc, pA, pB, first, set, serverGame, gameLog, setsToWin,
                   matchResult, setLog, bo, n, numSimulations, res, simCalls, ret,
                   markets, gameProb, query, status, requestStats, requestStatsMu,
                   added,
                   memo, tbStack, tbReturn, tbEvals, tiebreak, readers>>

\* requestStatsMu.Lock()
StatLock(c) ==
    /\ callers[c].pc = "lock"
    /\ requestStatsMu = 0
    /\ requestStatsMu' = c
    /\ callers' = [callers EXCEPT ![c].pc = "evict"]
    /\ UNCHANGED <<pc, pA, pB, first, set, serverGame, gameLog, setsToWin,
                   matchResult, setLog, bo, n, numSimulations, res, simCalls, ret,
                   markets, gameProb, query, status, requestStats, added, clock,
                   memo, tbStack, tbReturn, tbEvals, tiebreak, readers>>

\* if len(requestStats) >= maxStats { requestStats = requestStats[1:] }
StatEvict(c) ==
    /\ callers[c].pc = "evict"
    /\ requestStats' = evictOldest(requestStats)
    /\ callers' = [callers EXCEPT ![c].pc = "append"]
    /\ UNCHANGED <<pc, pA, pB, first, set, serverGame, gameLog, setsToWin,
                   matchResult, setLog, bo, n, numSimulations, res, simCalls, ret,
                   markets, gameProb, query, status, requestStatsMu, added, clock,
                   memo, tbStack, tbReturn, tbEvals, tiebreak, readers>>

\* requestStats = append(requestStats, stat)
StatAppend(c) ==
    /\ callers[c].pc = "append"
    /\ requestStats' = Append(requestStats, callers[c].stat)
    /\ added' = Append(added, callers[c].stat)
    /\ callers' = [callers EXCEPT ![c].pc = "unlock"]
    /\ UNCHANGED <<pc, pA, pB, first, set, serverGame, gameLog, setsToWin,
                   matchResult, setLog, bo, n, numSimulations, res, simCalls, ret,
                   markets, gameProb, query, status, requestStatsMu, clock,
                   memo, tbStack, tbReturn, tbEvals, tiebreak, readers>>

\* the deferred requestStatsMu.Unlock()
StatUnlock(c) ==
    /\ callers[c].pc = "unlock"
    /\ requestStatsMu' = 0
    /\ callers' = [callers EXCEPT ![c] = [pc |-> "idle", stat |-> NoStat]]
    /\ UNCHANGED <<pc, pA, pB, first, set, serverGame, gameLog, setsToWin,
                   matchResult, setLog, bo, n, numSimulations, res, simCalls, ret,
                   markets, gameProb, query, status, requestStats, added, clock,
                   memo, tbStack, tbReturn, tbEvals, tiebreak, readers>>

NextStats ==
    \E c \in Callers :
        \/ StatCall(c)
        \/ StatLock(c)
        \/ StatEvict(c)
        \/ StatAppend(c)
        \/ StatUnlock(c)

SpecStats == InitStats /\ [][NextStats]_vars

-----------------------------------------------------------------------------
(* the server: goroutines of handler and of statsHandler sharing requestStats *)

\* the goroutines serving GET /stats
Readers == {3}

\* len(requestStats) when the exploration starts: one below capacity
ServerPrefill == maxStats - 1

\* statsHandler: the summary computed from statsCopy
StatsSummary(statsCopy) ==
    LET successCount ==
            Cardinality({i \in 1..Len(statsCopy) : statsCopy[i].Success = 1})
        errorCount ==
            Cardinality({i \in 1..Len(statsCopy) : statsCopy[i].Success # 1})
    IN  [TotalRequests |-> Len(statsCopy),
         SuccessCount |-> successCount,
         ErrorCount |-> errorCount]

\* requestStatsMu.Lock() returns only when no goroutine holds the mutex
mutexFree_Always(mu) == TRUE
mutexFree(mu) == mu = 0

InitServer ==
    /\ pc = "server"
    /\ requestStats = Prefilled(ServerPrefill)
    /\ added = Prefilled(ServerPrefill)
    /\ clock = maxStats + 1
    /\ requestStatsMu = 0
    /\ callers = [c \in Callers |-> [pc |-> "idle", stat |-> NoStat]]
    /\ readers = [r \in Readers |->
                     [pc |-> "idle", statsCopy |-> <<>>, summary |-> StatsSummary(<<>>)]]
    /\ query = Idle /\ status = 0
    /\ pA = 0 /\ pB = 0
    /\ SetIdle /\ MatchIdle /\ SimIdle /\ GameIdle /\ TiebreakIdle

\* handler: an accepted request, sim.SimulateMatch is running
HandlerSimulate(c) ==
    /\ pc = "server"
    /\ callers[c].pc = "idle"
    /\ clock <= maxStats + MaxAdds
    /\ callers' = [callers EXCEPT ![c].pc = "simulate"]
    /\ UNCHANGED <<pc, pA, pB, first, set, serverGame, gameLog, setsToWin,
                   matchResult, setLog, bo, n, numSimulations, res, simCalls, ret,
                   markets, gameProb, query, status, requestStats, requestStatsMu,
                   added, clock, memo, tbStack, tbReturn, tbEvals, tiebreak, readers>>

\* handler: the simulation has returned; the stat is built, the response written
\* and addRequestStat(stat) called
HandlerRecord(c) ==
    /\ pc = "server"
    /\ callers[c].pc = "simulate"
    /\ clock <= maxStats + MaxAdds
    /\ callers' = [callers EXCEPT ![c] =
                      [pc |-> "lock",
                       stat |-> RequestStat(clock, handlerDefaultSimulations, 1)]]
    /\ clock' = clock + 1
    /\ UNCHANGED <<pc, pA, pB, first, set, serverGame, gameLog, setsToWin,
                   matchResult, setLog, bo, n, numSimulations, res, simCalls, ret,
                   markets, gameProb, query, status, requestStats, requestStatsMu,
                   added, memo, tbStack, tbReturn, tbEvals, tiebreak, readers>>

\* a request to /stats arrives
StatsRequest(r) ==
    /\ pc = "server"
    /\ readers[r].pc = "idle"
    /\ readers' = [readers EXCEPT ![r].pc = "lock"]
    /\ UNCHANGED <<pc, pA, pB, first, set, serverGame, gameLog, setsToWin,
                   matchResult, setLog, bo, n, numSimulations, res, simCalls, ret,
                   markets, gameProb, query, status, requestStats, requestStatsMu,
                   callers, added, clock, memo, tbStack, tbReturn, tbEvals, tiebreak>>

\* statsHandler: requestStatsMu.Lock()
StatsLock(r) ==
    /\ readers[r].pc = "lock"
    /\ mutexFree(requestStatsMu)
    /\ requestStatsMu' = r
    /\ readers' = [readers EXCEPT ![r].pc = "copy"]
    /\ UNCHANGED <<pc, pA, pB, first, set, serverGame, gameLog, setsToWin,
                   matchResult, setLog, bo, n, numSimulations, res, simCalls, ret,
                   markets, gameProb, query, status, requestStats, callers, added,
                   clock, memo, tbStack, tbReturn, tbEvals, tiebreak>>

\* statsCopy := make([]RequestStat, len(requestStats)); copy(statsCopy, requestStats)
StatsCopy(r) ==
    /\ readers[r].pc = "copy"
    /\ readers' = [readers EXCEPT ![r].pc = "unlock", ![r].statsCopy = requestStats]
    /\ UNCHANGED <<pc, pA, pB, first, set, serverGame, gameLog, setsToWin,
                   matchResult, setLog, bo, n, numSimulations, res, simCalls, ret,
                   markets, gameProb, query, status, requestStats, requestStatsMu,
                   callers, added, clock, memo, tbStack, tbReturn, tbEvals, tiebreak>>

\* requestStatsMu.Unlock()
StatsUnlock(r) ==
    /\ readers[r].pc = "unlock"
    /\ requestStatsMu' = 0
    /\ readers' = [readers EXCEPT ![r].pc = "summarize"]
    /\ UNCHANGED <<pc, pA, pB, first, set, serverGame, gameLog, setsToWin,
                   matchResult, setLog, bo, n, numSimulations, res, simCalls, ret,
                   markets, gameProb, query, status, requestStats, callers, added,
                   clock, memo, tbStack, tbReturn, tbEvals, tiebreak>>

\* the loop over statsCopy and the encoding of the summary
StatsSummarize(r) ==
    /\ readers[r].pc = "summarize"
    /\ readers' = [readers EXCEPT ![r].pc = "idle",
                                  ![r].summary = StatsSummary(readers[r].statsCopy)]
    /\ UNCHANGED <<pc, pA, pB, first, set, serverGame, gameLog, setsToWin,
                   matchResult, setLog, bo, n, numSimulations, res, simCalls, ret,
                   markets, gameProb, query, status, requestStats, requestStatsMu,
                   callers, added, clock, memo, tbStack, tbReturn, tbEvals, tiebreak>>

NextServer ==
    \/ \E c \in Callers :
           \/ HandlerSimulate(c)
           \/ HandlerRecord(c)
           \/ StatLock(c)
           \/ StatEvict(c)
           \/ StatAppend(c)
           \/ StatUnlock(c)
    \/ \E r \in Readers :
           \/ StatsRequest(r)
           \/ StatsLock(r)
           \/ StatsCopy(r)
           \/ StatsUnlock(r)
           \/ StatsSummarize(r)

SpecServer == InitServer /\ [][NextServer]_vars

\* every goroutine keeps running, and a goroutine waiting in Lock gets the mutex
\* (sync.Mutex hands the mutex to a waiter that has waited long)
SpecServerFair ==
    /\ SpecServer
    /\ \A c \in Callers :
           /\ SF_vars(StatLock(c))
           /\ WF_vars(StatEvict(c)) /\ WF_vars(StatAppend(c)) /\ WF_vars(StatUnlock(c))
    /\ \A r \in Readers :
           /\ SF_vars(StatsLock(r))
           /\ WF_vars(StatsCopy(r)) /\ WF_vars(StatsUnlock(r))
           /\ WF_vars(StatsSummarize(r))

-----------------------------------------------------------------------------
(* Properties *)

Max2(x, y) == IF x >= y THEN x ELSE y
Min2(x, y) == IF x <= y THEN x ELSE y

\* a final set score: 6-x with x <= 4, 7-5 or 7-6, for either side
IsFinalSetScore(s) ==
    \/ Max2(s.AGames, s.BGames) = 6 /\ Min2(s.AGames, s.BGames) <= 4
    \/ Max2(s.AGames, s.BGames) = 7 /\ Min2(s.AGames, s.BGames) \in {5, 6}

\* C1: whatever the game outcomes and whoever serves first, the set simulateSet
\* returns has a score of 6-x with x <= 4, 7-5 or 7-6 for either side.
C1_SetScoreIsFinal ==
    pc = "set_done" => IsFinalSetScore(set)

\* a set that player 2, serving first, wins in the tiebreak
C1_Witness ==
    /\ pc = "set_done"
    /\ set = SimulatedSet(6, 7)
    /\ ~first

\* a match in which exactly one side has toWin sets and the other has fewer
IsCompleted(m, toWin) ==
    \/ m.ASets = toWin /\ m.BSets < toWin
    \/ m.BSets = toWin /\ m.ASets < toWin

\* C2: the match simulateSingleMatch returns has exactly one of ASets, BSets equal
\* to setsToWin, the other strictly smaller, and one entry of SetResults per set won.
C2_MatchIsCompleted ==
    pc = "match_done" =>
        /\ IsCompleted(matchResult, setsToWin)
        /\ Len(matchResult.SetResults) = matchResult.ASets + matchResult.BSets

C2_Witness ==
    /\ pc = "match_done"
    /\ setsToWin = 3
    /\ matchResult.ASets = 2
    /\ matchResult.BSets = 3

\* the games player A and player B really won in set i of the match: setLog
\* tells whether player A was simulateSet's player 1 in that set
GamesOfA(i) ==
    IF setLog[i] THEN matchResult.SetResults[i].AGames
    ELSE matchResult.SetResults[i].BGames
GamesOfB(i) ==
    IF setLog[i] THEN matchResult.SetResults[i].BGames
    ELSE matchResult.SetResults[i].AGames

RECURSIVE TotalGamesOfA(_)
TotalGamesOfA(k) == IF k = 0 THEN 0 ELSE GamesOfA(k) + TotalGamesOfA(k - 1)
RECURSIVE TotalGamesOfB(_)
TotalGamesOfB(k) == IF k = 0 THEN 0 ELSE GamesOfB(k) + TotalGamesOfB(k - 1)

\* C3: in the returned match every entry of SetResults holds player A's games in
\* AGames and player B's in BGames: as many entries with AGames > BGames as ASets,
\* as many with BGames > AGames as BSets, and getMatchGames returns the games won
\* by A and by B.
C3_NoSideSwapping ==
    pc = "match_done" =>
        LET sets == matchResult.SetResults
            k == Len(sets)
        IN  /\ Cardinality({i \in 1..k : sets[i].AGames > sets[i].BGames})
                = matchResult.ASets
            /\ Cardinality({i \in 1..k : sets[i].BGames > sets[i].AGames})
                = matchResult.BSets
            /\ \A i \in 1..k : sets[i].AGames = GamesOfA(i) /\ sets[i].BGames = GamesOfB(i)
            /\ getMatchGames(sets) = <<TotalGamesOfA(k), TotalGamesOfB(k)>>

\* C4: SimulateMatch with bo outside {3, 5} returns the error "invalid number of
\* sets" and a nil list, and no match has been simulated.
C4_InvalidBestOfFails ==
    (pc # "sim_call" /\ bo \notin {3, 5}) =>
        /\ pc = "sim_failed"
        /\ ret.nil /\ ret.list = <<>>
        /\ ret.err = "invalid number of sets"
        /\ simCalls = 0 /\ res = <<>>
        /\ markets = Idle

C4_Witness ==
    /\ pc = "sim_failed"
    /\ bo = 4
    /\ n = <<2>>

\* the number of matches asked for: n when given and positive, else 1,000,000
RequestedCount == IF n # <<>> /\ n[1] > 0 THEN n[1] ELSE 1000000

\* C5: for bo in {3, 5} SimulateMatch simulates n matches when n > 0 is given and
\* 1,000,000 when n is omitted or not positive: the loop runs while fewer have been
\* simulated, the list is returned, without error, when it holds exactly that many,
\* and every element is a completed match with setsToWin = bo/2 + 1.
C5_SampleSize ==
    /\ (pc \in {"sim_loop", "derive", "derived"}) =>
           /\ bo \in {3, 5}
           /\ numSimulations = RequestedCount
           /\ Len(res) <= numSimulations
           /\ simCalls = Len(res)
           /\ \A i \in 1..Len(res) : IsCompleted(res[i], (bo \div 2) + 1)
    /\ (pc \in {"derive", "derived"}) =>
           /\ ~ret.nil /\ ret.err = ErrNil
           /\ ret.list = res
           /\ Len(ret.list) = RequestedCount
    /\ (pc = "sim_loop" /\ Len(res) < RequestedCount) => ~ENABLED SimulateMatchReturn

C5_Witness ==
    /\ pc = "derive"
    /\ bo = 5
    /\ n = <<2>>
    /\ Len(ret.list) = 2
    /\ ret.list[1].BSets = 3

\* the default of 1,000,000 is taken when n is omitted and when it is not positive
C5_WitnessDefault ==
    /\ pc = "sim_loop"
    /\ n = <<0>>
    /\ numSimulations = 1000000
    /\ Len(res) = MaxN

\* C8: with pA = 1.0 and pB = 0.0 every match SimulateMatch produces is won by A
\* without losing a set, whatever the draws, and the moneyline is ProbA = 1.0,
\* ProbB = 0.0.
C8_CertainServerWinsAll ==
    (pA = One /\ pB = 0) =>
        /\ \A i \in 1..Len(res) :
               res[i].ASets = (bo \div 2) + 1 /\ res[i].BSets = 0
        /\ pc = "derived" =>
               markets.Moneyline.ProbA = One /\ markets.Moneyline.ProbB = 0

C8_Witness ==
    /\ pc = "derived"
    /\ pA = One /\ pB = 0
    /\ bo = 5
    /\ Len(res) = 2

Range(s) == {s[i] : i \in 1..Len(s)}

\* every line of a SimulationResult
AllLines(mk) ==
    {mk.Moneyline} \cup Range(mk.SetHandicaps) \cup Range(mk.GameHandicaps)
        \cup Range(mk.SetOU) \cup Range(mk.GameOU)

\* C6: for a non-empty sample and bestOf in {3, 5}, every line of the moneyline, the
\* set and game handicaps and the set and game totals has ProbA and ProbB in [0, 1]
\* and ProbA + ProbB = 1.
C6_ProbabilitiesSumToOne ==
    (pc = "derived" /\ Len(res) > 0 /\ bo \in {3, 5}) =>
        \A l \in AllLines(markets) :
            /\ 0 <= l.ProbA /\ l.ProbA <= One
            /\ 0 <= l.ProbB /\ l.ProbB <= One
            /\ l.ProbA + l.ProbB = One

C6_Witness ==
    /\ pc = "derived"
    /\ Len(res) = 2
    /\ bo = 5
    /\ \E l \in Range(markets.GameHandicaps) : l.ProbA = Half /\ l.ProbB = Half
    /\ \E l \in Range(markets.GameOU) : l.ProbA = One /\ l.ProbB = 0

\* the matches of the sample that player A won
WonByA == {i \in 1..Len(res) : res[i].ASets > res[i].BSets}

\* C7: the moneyline is computed from the matches: ProbA is the number of matches
\* with ASets > BSets over the number of matches and ProbB = 1 - ProbA; when A won
\* every match of a non-empty sample they are 1.0 and 0.0.
C7_MoneylineIsWinFraction ==
    (pc = "derived" /\ Len(res) > 0) =>
        /\ markets.Moneyline.ProbA = FDiv(Cardinality(WonByA), Len(res))
        /\ markets.Moneyline.ProbB = One - markets.Moneyline.ProbA
        /\ (Cardinality(WonByA) = Len(res)) =>
               markets.Moneyline.ProbA = One /\ markets.Moneyline.ProbB = 0

C7_Witness ==
    /\ pc = "derived"
    /\ Len(res) = 2
    /\ Cardinality(WonByA) = 1
    /\ res[1].ASets = res[1].BSets
    /\ markets.Moneyline.ProbA = Half

\* the games of a match summed over its sets, side by side
RECURSIVE SumAGames(_, _)
SumAGames(sets, k) == IF k = 0 THEN 0 ELSE sets[k].AGames + SumAGames(sets, k - 1)
RECURSIVE SumBGames(_, _)
SumBGames(sets, k) == IF k = 0 THEN 0 ELSE sets[k].BGames + SumBGames(sets, k - 1)

\* A_result and B_result of match i: sets won, resp. total games
SetsA(i) == res[i].ASets
SetsB(i) == res[i].BSets
TotalA(i) == SumAGames(res[i].SetResults, Len(res[i].SetResults))
TotalB(i) == SumBGames(res[i].SetResults, Len(res[i].SetResults))

\* the matches in which A covers the handicap h2/2: A_result + h > B_result
SetCovers(h2) == {i \in 1..Len(res) : 2 * SetsA(i) + h2 > 2 * SetsB(i)}
GameCovers(h2) == {i \in 1..Len(res) : 2 * TotalA(i) + h2 > 2 * TotalB(i)}

\* getSetHandicap is probed with the handicaps -3.0 to 3.0 in steps of 0.5;
\* getGameHandicap with the handicaps at and next to (by 0.5) the game difference of
\* each match of the sample, between which the count does not change
SetHandicapProbes == (0 - 6)..6
GameHandicapProbes ==
    {2 * (TotalB(i) - TotalA(i)) + d : i \in 1..Len(res), d \in {0 - 1, 0, 1}}

\* C9: for every handicap h, getSetHandicap and getGameHandicap count a match for A
\* exactly when A_result + h > B_result, ProbA is that count over the number of
\* matches and ProbB = 1 - ProbA; on no generated line a match has
\* A_result + h = B_result.
C9_HandicapIsCoverFraction ==
    (pc = "derived" /\ Len(res) > 0) =>
        /\ \A h2 \in SetHandicapProbes :
             LET l == getSetHandicap(res, h2)
             IN  /\ l.ProbA = FDiv(Cardinality(SetCovers(h2)), Len(res))
                 /\ l.ProbB = One - l.ProbA
        /\ \A h2 \in GameHandicapProbes :
             LET l == getGameHandicap(res, h2)
             IN  /\ l.ProbA = FDiv(Cardinality(GameCovers(h2)), Len(res))
                 /\ l.ProbB = One - l.ProbA
        /\ \A l \in Range(markets.SetHandicaps) :
            /\ l.ProbA = FDiv(Cardinality(SetCovers(l.Line2)), Len(res))
            /\ l.ProbB = One - l.ProbA
            /\ \A i \in 1..Len(res) : 2 * SetsA(i) + l.Line2 # 2 * SetsB(i)
        /\ \A l \in Range(markets.GameHandicaps) :
            /\ l.ProbA = FDiv(Cardinality(GameCovers(l.Line2)), Len(res))
            /\ l.ProbB = One - l.ProbA
            /\ \A i \in 1..Len(res) : 2 * TotalA(i) + l.Line2 # 2 * TotalB(i)

C9_Witness ==
    /\ pc = "derived"
    /\ Len(res) = 2
    /\ SetsA(1) = SetsB(1)
    /\ \E l \in Range(markets.SetHandicaps) : l.Line2 = 0 - 1 /\ l.ProbA = Half
    /\ \E l \in Range(markets.GameHandicaps) : l.Line2 = 0 - 1 /\ l.ProbA = Half

\* the matches with (B_result - A_result) < h, and those with (B_result - A_result) > h
SetDiffBelow(h2) == {i \in 1..Len(res) : 2 * (SetsB(i) - SetsA(i)) < h2}
SetDiffAbove(h2) == {i \in 1..Len(res) : 2 * (SetsB(i) - SetsA(i)) > h2}
GameDiffBelow(h2) == {i \in 1..Len(res) : 2 * (TotalB(i) - TotalA(i)) < h2}
GameDiffAbove(h2) == {i \in 1..Len(res) : 2 * (TotalB(i) - TotalA(i)) > h2}

\* C10 as claimed: on every generated handicap line h, ProbA is the frequency of
\* the results with (B_result - A_result) < h when h < 0 and of those with
\* (B_result - A_result) > h when h >= 0; ProbB = 1 - ProbA.
C10_SignBranchedHandicap ==
    (pc = "derived" /\ Len(res) > 0) =>
        /\ \A l \in Range(markets.SetHandicaps) :
            /\ l.ProbA = FDiv(Cardinality(IF l.Line2 < 0 THEN SetDiffBelow(l.Line2)
                                          ELSE SetDiffAbove(l.Line2)), Len(res))
            /\ l.ProbB = One - l.ProbA
        /\ \A l \in Range(markets.GameHandicaps) :
            /\ l.ProbA = FDiv(Cardinality(IF l.Line2 < 0 THEN GameDiffBelow(l.Line2)
                                          ELSE GameDiffAbove(l.Line2)), Len(res))
            /\ l.ProbB = One - l.ProbA

\* C10 as amended: on every generated handicap line h, negative or not, ProbA is the
\* frequency of the results with (B_result - A_result) < h; ProbB = 1 - ProbA.
C10_HandicapIsDiffBelow ==
    (pc = "derived" /\ Len(res) > 0) =>
        /\ \A l \in Range(markets.SetHandicaps) :
            /\ l.ProbA = FDiv(Cardinality(SetDiffBelow(l.Line2)), Len(res))
            /\ l.ProbB = One - l.ProbA
        /\ \A l \in Range(markets.GameHandicaps) :
            /\ l.ProbA = FDiv(Cardinality(GameDiffBelow(l.Line2)), Len(res))
            /\ l.ProbB = One - l.ProbA

C10_Witness ==
    /\ pc = "derived"
    /\ Len(res) = 2
    /\ \E l \in Range(markets.SetHandicaps) :
           l.Line2 = 3 /\ l.ProbA = Half /\ Cardinality(SetDiffAbove(3)) = 1
    /\ \E l \in Range(markets.GameHandicaps) :
           l.Line2 = 7 /\ l.ProbA = Half

\* the Line labels and the markets of a list of lines, in order
Labels(lines) == [k \in 1..Len(lines) |-> lines[k].Line]
MarketsOf(lines) == {lines[k].Market : k \in 1..Len(lines)}

SetHandicapLabels3 == <<"-1.5", "-0.5", "0.5", "1.5">>
SetHandicapLabels5 == <<"-2.5", "-1.5", "-0.5", "0.5", "1.5", "2.5">>
GameHandicapLabels3 ==
    <<"-8.5", "-7.5", "-6.5", "-5.5", "-4.5", "-3.5", "-2.5", "-1.5", "-0.5",
      "0.5", "1.5", "2.5", "3.5", "4.5", "5.5", "6.5", "7.5", "8.5">>
GameHandicapLabels5 ==
    <<"-12.5", "-11.5", "-10.5", "-9.5", "-8.5", "-7.5", "-6.5", "-5.5",
      "-4.5", "-3.5", "-2.5", "-1.5", "-0.5", "0.5", "1.5", "2.5", "3.5",
      "4.5", "5.5", "6.5", "7.5", "8.5", "9.5", "10.5", "11.5", "12.5">>

\* C11: GetSetHandicaps returns the lines -1.5..1.5 (4 lines) for bestOf 3 and
\* -2.5..2.5 (6 lines) for bestOf 5, GetGameHandicaps -8.5..8.5 (18 lines) for
\* bestOf 3 and -12.5..12.5 (26 lines) for bestOf 5, ascending in steps of 1.0;
\* every line is a half-integer labelled with one decimal, with market AH.
C11_HandicapLines ==
    (pc = "derived") =>
        /\ Labels(markets.SetHandicaps) =
               (IF bo = 3 THEN SetHandicapLabels3 ELSE SetHandicapLabels5)
        /\ Labels(markets.GameHandicaps) =
               (IF bo = 3 THEN GameHandicapLabels3 ELSE GameHandicapLabels5)
        /\ Len(markets.SetHandicaps) = (IF bo = 3 THEN 4 ELSE 6)
        /\ Len(markets.GameHandicaps) = (IF bo = 3 THEN 18 ELSE 26)
        /\ MarketsOf(markets.SetHandicaps) = {"AH"}
        /\ MarketsOf(markets.GameHandicaps) = {"AH"}
        /\ \A lines \in {markets.SetHandicaps, markets.GameHandicaps} :
               \A k \in 1..Len(lines) :
                   /\ lines[k].Line2 % 2 = 1
                   /\ k > 1 => lines[k].Line2 = lines[k - 1].Line2 + 2

C11_Witness ==
    /\ pc = "derived"
    /\ bo = 5
    /\ Len(res) = 2
    /\ markets.SetHandicaps[1].Line = "-2.5"
    /\ markets.GameHandicaps[26].Line = "12.5"

\* the matches with A_result + B_result > t, t = t2/2
SetsOver(t2) == {i \in 1..Len(res) : 2 * (SetsA(i) + SetsB(i)) > t2}
GamesOver(t2) == {i \in 1..Len(res) : 2 * (TotalA(i) + TotalB(i)) > t2}

\* getSetTotal is probed with the totals 0.0 to 6.0 in steps of 0.5; getGameTotal
\* with the totals at and next to (by 0.5) the number of games of each match of the
\* sample, between which the count does not change
SetTotalProbes == 0..12
GameTotalProbes ==
    {2 * (TotalA(i) + TotalB(i)) + d : i \in 1..Len(res), d \in {0 - 1, 0, 1}}

\* C12: for every total line t, getSetTotal and getGameTotal return ProbA = the
\* fraction of matches with A_result + B_result > t (sets won, resp. games summed
\* over the sets of the match) and ProbB = 1 - ProbA.
C12_TotalIsOverFraction ==
    (pc = "derived" /\ Len(res) > 0) =>
        /\ \A t2 \in SetTotalProbes :
             LET l == getSetTotal(res, t2)
             IN  /\ l.ProbA = FDiv(Cardinality(SetsOver(t2)), Len(res))
                 /\ l.ProbB = One - l.ProbA
        /\ \A t2 \in GameTotalProbes :
             LET l == getGameTotal(res, t2)
             IN  /\ l.ProbA = FDiv(Cardinality(GamesOver(t2)), Len(res))
                 /\ l.ProbB = One - l.ProbA
        /\ \A k \in 1..Len(markets.SetOU) :
             LET l == markets.SetOU[k]
             IN  /\ l.ProbA = FDiv(Cardinality(SetsOver(l.Line2)), Len(res))
                 /\ l.ProbB = One - l.ProbA
        /\ \A k \in 1..Len(markets.GameOU) :
             LET l == markets.GameOU[k]
             IN  /\ l.ProbA = FDiv(Cardinality(GamesOver(l.Line2)), Len(res))
                 /\ l.ProbB = One - l.ProbA

C12_Witness ==
    /\ pc = "derived"
    /\ Len(res) = 2
    /\ TotalA(1) + TotalB(1) = 12
    /\ getGameTotal(res, 24).ProbA = Half
    /\ \E k \in 1..Len(markets.GameOU) : markets.GameOU[k].ProbA = Half
    /\ \E k \in 1..Len(markets.SetOU) : markets.SetOU[k].ProbA = Half

SetTotalLabels3 == <<"2.5">>
SetTotalLabels5 == <<"3.5", "4.5">>
GameTotalLabels3 ==
    <<"12.5", "13.5", "14.5", "15.5", "16.5", "17.5", "18.5", "19.5", "20.5",
      "21.5", "22.5", "23.5", "24.5", "25.5", "26.5", "27.5", "28.5", "29.5",
      "30.5", "31.5", "32.5", "33.5", "34.5", "35.5", "36.5">>
GameTotalLabels5 ==
    <<"18.5", "19.5", "20.5", "21.5", "22.5", "23.5", "24.5", "25.5", "26.5",
      "27.5", "28.5", "29.5", "30.5", "31.5", "32.5", "33.5", "34.5", "35.5",
      "36.5", "37.5", "38.5", "39.5", "40.5", "41.5", "42.5", "43.5", "44.5",
      "45.5", "46.5", "47.5", "48.5", "49.5", "50.5", "51.5", "52.5", "53.5",
      "54.5", "55.5", "56.5", "57.5", "58.5", "59.5", "60.5">>

\* C13: GetSetTotals returns exactly the line 2.5 for bestOf 3 and exactly the
\* lines 3.5, 4.5 for bestOf 5; GetGameTotals returns the lines from
\* (bestOf/2+1)*6+0.5 to bestOf*12+0.5 in steps of 1.0, i.e. 12.5..36.5 for bestOf 3
\* and 18.5..60.5 for bestOf 5, in ascending order, with market OU.
C13_TotalLines ==
    (pc = "derived") =>
        /\ Labels(markets.SetOU) = (IF bo = 3 THEN SetTotalLabels3 ELSE SetTotalLabels5)
        /\ Labels(markets.GameOU) =
               (IF bo = 3 THEN GameTotalLabels3 ELSE GameTotalLabels5)
        /\ MarketsOf(markets.SetOU) = {"OU"}
        /\ MarketsOf(markets.GameOU) = {"OU"}
        /\ markets.GameOU[1].Line2 = 2 * ((bo \div 2 + 1) * 6) + 1
        /\ markets.GameOU[Len(markets.GameOU)].Line2 = 2 * (bo * 12) + 1
        /\ \A k \in 2..Len(markets.GameOU) :
               markets.GameOU[k].Line2 = markets.GameOU[k - 1].Line2 + 2

C13_Witness ==
    /\ pc = "derived"
    /\ bo = 5
    /\ Len(res) = 2
    /\ Len(markets.SetOU) = 2
    /\ markets.GameOU[1].Line = "18.5"
    /\ markets.GameOU[43].Line = "60.5"

\* market and label of every line of a list, in order
LinesOf(lines) == [k \in 1..Len(lines) |-> <<lines[k].Market, lines[k].Line>>]

\* a sample of one match
OneMatchSample == <<Match(2, 0, <<SimulatedSet(6, 0), SimulatedSet(0, 6)>>)>>

\* C14: deriving the markets from an empty match list does not fail: the moneyline
\* and every handicap and total line have ProbA = NaN and ProbB = NaN, and the line
\* lists contain the same lines as for a non-empty sample.
C14_EmptySampleGivesNaN ==
    (pc = "derived" /\ Len(res) = 0) =>
        /\ \A l \in AllLines(markets) : l.ProbA = NaN /\ l.ProbB = NaN
        /\ markets.Moneyline.Market = "ML" /\ markets.Moneyline.Line = "ml"
        /\ LET other == deriveProbabilities(OneMatchSample, bo)
           IN  /\ LinesOf(markets.SetHandicaps) = LinesOf(other.SetHandicaps)
               /\ LinesOf(markets.GameHandicaps) = LinesOf(other.GameHandicaps)
               /\ LinesOf(markets.SetOU) = LinesOf(other.SetOU)
               /\ LinesOf(markets.GameOU) = LinesOf(other.GameOU)
               /\ \A l \in AllLines(other) : l.ProbA # NaN /\ l.ProbB # NaN

C14_Witness ==
    /\ pc = "derived"
    /\ res = <<>>
    /\ bo = 3
    /\ markets.Moneyline.ProbA = NaN
    /\ Len(markets.GameOU) = 25

\* D = p^2 / (1 - 2*p*(1-p)) clamped to [0.001, 0.999]
ClampedDeuce(p) ==
    LET D == FDiv(FMul(p, p), One - 2 * FMul(p, One - p))
    IN  IF D < Milli(1) THEN Milli(1) ELSE IF D > Milli(999) THEN Milli(999) ELSE D

\* p^4 + 4*p^4*(1-p) + 10*p^4*(1-p)^2 + 20*p^3*(1-p)^3 * D
GameFormula(p) ==
    LET q == One - p
        p2 == FMul(p, p)
        p4 == FMul(p2, p2)
    IN  p4 + 4 * FMul(p4, q) + 10 * FMul(FMul(p4, q), q)
           + FMul(20 * FMul(FMul(p2, p), FMul(FMul(q, q), q)), ClampedDeuce(p))

\* C15: for every p in [0,1], simulateGame(p) equals
\* p^4 + 4*p^4*(1-p) + 10*p^4*(1-p)^2 + 20*p^3*(1-p)^3 * D, where
\* D = p^2 / (1 - 2*p*(1-p)) clamped to [0.001, 0.999].
C15_GameFormula ==
    (pc = "game_done") => gameProb = GameFormula(pA)

\* a p where the clamp of D is active
C15_Witness ==
    /\ pc = "game_done"
    /\ pA = FDiv(20, 1000)
    /\ FDiv(FMul(pA, pA), One - 2 * FMul(pA, One - pA)) < Milli(1)
    /\ gameProb > 0
    /\ gameProb = GameFormula(pA)

\* C16: for all p in [0,1], simulateGame(p) lies in [0,1]; simulateGame(0.5) = 0.5;
\* simulateGame(0) = 0 and simulateGame(1) = 1; and simulateGame is monotonic
\* non-decreasing in p (compared between neighbouring points of the grid).
C16_GameProbabilityProperties ==
    (pc = "game_done") =>
        /\ 0 <= gameProb /\ gameProb <= One
        /\ pA = Half => gameProb = Half
        /\ pA = 0 => gameProb = 0
        /\ pA = One => gameProb = One
        /\ \A q \in GameGrid :
               (q <= pA /\ pA - q <= One \div GridSteps + 1) =>
                   simulateGame(q) <= gameProb

\* C20 as claimed: at p = 0.5 the deuce denominator 1 - 2*p*(1-p) is 0 and
\* simulateGame takes its special-case branch, which sets the deuce win probability
\* to exactly 0.5.
C20_ZeroDenominatorAtHalf ==
    (pc = "game_done" /\ pA = Half) =>
        /\ denominatorDeuce(pA) = 0
        /\ denominatorNearZero(pA)
        /\ pDeuceOf(pA) = Half

\* C20 as amended: at p = 0.5 the deuce denominator 1 - 2*p*(1-p) is 0.5 and
\* simulateGame takes the ordinary branch, whose quotient p^2 / denominator is
\* exactly 0.5; for every p in [0,1] the denominator is at least 0.5, so the
\* special-case branch is never taken.
C20_DenominatorAtLeastHalf ==
    (pc = "game_done") =>
        /\ denominatorDeuce(pA) >= Half
        /\ ~denominatorNearZero(pA)
        /\ pA = Half =>
             /\ denominatorDeuce(pA) = Half
             /\ FDiv(FMul(pA, pA), denominatorDeuce(pA)) = Half
             /\ pDeuceOf(pA) = Half

C20_Witness ==
    /\ pc = "game_done"
    /\ pA = Half
    /\ denominatorDeuce(pA) = Half
    /\ gameProb = Half

\* the games played in the first k sets of the match (a tiebreak counts as a game)
RECURSIVE GamesPlayedIn(_)
GamesPlayedIn(k) ==
    IF k = 0 THEN 0
    ELSE matchResult.SetResults[k].AGames + matchResult.SetResults[k].BGames
             + GamesPlayedIn(k - 1)

\* C19: in simulateSingleMatch, which player serves first in the next set is decided
\* by the total number of games played so far in the match: player A's parameters
\* serve first when that running total is even, player B's when it is odd.
C19_FirstServerByGamesPlayed ==
    \A i \in 1..Len(setLog) : setLog[i] = (GamesPlayedIn(i - 1) % 2 = 0)

\* the request as the claim classifies it
Unparsable == {"", "abc"}
BadParse ==
    query.p1 \in Unparsable \/ query.p2 \in Unparsable \/ query.bestof \in Unparsable
BadBestof == ~BadParse /\ query.bestof \notin {"3", "5"}
InUnitInterval(x) == x # NaN /\ 0 <= x /\ x <= One
BadRange ==
    /\ ~BadParse /\ ~BadBestof
    /\ \/ ~InUnitInterval(ParseFloat(query.p1).val)
       \/ ~InUnitInterval(ParseFloat(query.p2).val)
\* the handler has answered with the status code and has run no simulation
RejectedWith(code) ==
    /\ pc = "responded" /\ status = code
    /\ simCalls = 0 /\ res = <<>> /\ requestStats = <<>>
ExpectedSimulations ==
    IF query.simulations \in {"1", "2"} THEN Atoi(query.simulations).val ELSE 1000000

\* C17: the handler answers 400 when p1, p2 or bestof is missing or unparsable or
\* when p1 or p2 is outside [0,1], and 500 when bestof parses but is not 3 or 5;
\* the checks run in the order parse errors, bestof value, probability range; in
\* every rejected case no simulation is run.  A missing, unparsable or non-positive
\* simulations parameter is not an error and falls back to 1,000,000.
C17_HandlerValidation ==
    (pc # "handler") =>
        /\ BadParse => RejectedWith(400)
        /\ BadBestof => RejectedWith(500)
        /\ BadRange => RejectedWith(400)
        /\ ~(BadParse \/ BadBestof \/ BadRange) =>
               /\ n = <<ExpectedSimulations>>
               /\ status \in {0, 200}
               /\ pc = "responded" => status = 200 /\ simCalls = ExpectedSimulations

\* the k most recently added stats, in insertion order
LastAdded(k) == SubSeq(added, Len(added) - k + 1, Len(added))

\* C18: after any number of addRequestStat calls, in any interleaving of concurrent
\* callers, requestStats holds at most 1000 entries, and (whenever no call is inside
\* its critical section) they are exactly the most recently added min(k, 1000)
\* entries in insertion order.
C18_RequestStatsAreLastThousand ==
    (pc = "stats") =>
        /\ Len(requestStats) <= 1000
        /\ requestStatsMu = 0 =>
               requestStats = LastAdded(Min2(Len(added), 1000))
        /\ \A c, d \in Callers :
               (c # d /\ callers[c].pc \in {"evict", "append", "unlock"}) =>
                   callers[d].pc \notin {"evict", "append", "unlock"}

\* two concurrent callers on a full buffer: the stat built later was appended first
C18_Witness ==
    /\ pc = "stats"
    /\ requestStatsMu = 0
    /\ Len(added) = 1002
    /\ Len(requestStats) = 1000
    /\ requestStats[1].Timestamp = 3
    /\ requestStats[999].Timestamp > requestStats[1000].Timestamp

\* the server the standard rotation gives the point played after k points: the
\* designated first server for k = 0, the other player for k = 1, 2, the first
\* server for k = 3, 4, and so on
RotationServesDesignated(k) == ((k + 1) \div 2) % 2 = 0

\* C21: in the tiebreak solver the server of the point played after k = a + b points
\* is the designated first server when k = 0, the other player when k is 1 or 2, the
\* first server when k is 3 or 4, and so on: the server changes after the first point
\* and then after every two points, depending only on k and on who was designated.
C21_TiebreakServerRotation ==
    (pc \in {"tb_call", "tb_done"}) =>
        /\ \A i \in 1..Len(tbEvals) :
               tbEvals[i].aServes =
                   (IF RotationServesDesignated(tbEvals[i].p1 + tbEvals[i].p2)
                    THEN first ELSE ~first)
        /\ \A k \in 0..(maxTotalTiebreakPoints - 1) :
               /\ isPlayerAServingThisPoint(k, first) =
                      (IF RotationServesDesignated(k) THEN first ELSE ~first)
               /\ (isPlayerAServingThisPoint(k + 1, first) #
                   isPlayerAServingThisPoint(k, first)) <=> (k % 2 = 0)
        /\ isPlayerAServingThisPoint(0, first) = first
        /\ isPlayerAServingThisPoint(1, first) = ~first
        /\ isPlayerAServingThisPoint(2, first) = ~first
        /\ isPlayerAServingThisPoint(3, first) = first
        /\ isPlayerAServingThisPoint(4, first) = first

\* a finished solver run that evaluated, at the same number of points played, a
\* point with A ahead and one with B ahead, both served by the designated player A
C21_Witness ==
    /\ pc = "tb_done"
    /\ first
    /\ \E i, j \in 1..Len(tbEvals) :
         /\ tbEvals[i].p1 = 3 /\ tbEvals[i].p2 = 1 /\ tbEvals[i].aServes
         /\ tbEvals[j].p1 = 1 /\ tbEvals[j].p2 = 3 /\ tbEvals[j].aServes
    /\ \E i \in 1..Len(tbEvals) :
         tbEvals[i].p1 + tbEvals[i].p2 = 2 /\ ~tbEvals[i].aServes

\* the value of tiebreakProbRecursive(a, b) once its call has returned: 1 or 0 for
\* a decided tiebreak, the memoized value otherwise
ValueAt(a, b) ==
    IF aWonTiebreak(a, b) THEN One
    ELSE IF bWonTiebreak(a, b) THEN 0
    ELSE memo[a][b]

IsProbability(x) == x # NaN /\ 0 <= x /\ x <= One

\* the probability that A wins the point played at (a, b)
PointProbability(a, b) ==
    IF RotationServesDesignated(a + b) = first THEN pA ELSE One - pB

\* C22: the solver's value is 1 when a >= 7 and a - b >= 2, 0 when b >= 7 and
\* b - a >= 2, and otherwise (below the depth cap)
\* V(a,b) = q*V(a+1,b) + (1-q)*V(a,b+1) with q = probAonServe when A serves the point
\* and q = 1 - probBonServe when B serves; for probabilities pA, pB in [0,1] the value
\* at (0,0) lies in [0,1], is 1 for (pA,pB) = (1,0) and 0 for (0,1), and A wins the
\* tiebreak iff that value is greater than one uniform draw of [0,1).
C22_TiebreakRecurrence ==
    (pc \in {"tb_call", "tb_done"} /\ IsProbability(pA) /\ IsProbability(pB)) =>
        /\ \A a, b \in 0..maxTotalTiebreakPoints :
               (memo[a][b] # MinusOne /\ a + b < maxTotalTiebreakPoints) =>
                   /\ ~aWonTiebreak(a, b) /\ ~bWonTiebreak(a, b)
                   /\ memo[a][b] =
                          FMul(PointProbability(a, b), ValueAt(a + 1, b))
                              + FMul(One - PointProbability(a, b), ValueAt(a, b + 1))
                   /\ IsProbability(memo[a][b])
        /\ \A i \in 1..Len(tbEvals) :
               tbEvals[i].q = PointProbability(tbEvals[i].p1, tbEvals[i].p2)
        /\ (tbStack = <<>>) =>
               /\ tbReturn = ValueAt(0, 0)
               /\ IsProbability(tbReturn)
               /\ (pA = One /\ pB = 0) => tbReturn = One
               /\ (pA = 0 /\ pB = One) => tbReturn = 0
               /\ tbReturn = tiebreakProbRecursive(pA, pB, first)
        /\ (pc = "tb_done") =>
               /\ tiebreak.draw \in DrawSet
               /\ tiebreak.aWins <=> (ValueAt(0, 0) > tiebreak.draw)

\* a tiebreak between two players who win half and a quarter of their service
\* points: the value is strictly inside (0,1), the middle draw is below it and A wins
C22_Witness ==
    /\ pc = "tb_done"
    /\ pA = Half /\ pB = Quarter /\ ~first
    /\ tbReturn > Half /\ tbReturn < One
    /\ tiebreak.draw = Half /\ tiebreak.aWins
    /\ memo[6][6] # MinusOne /\ memo[6][6] # Half

\* the number of times the recurrence of (a, b) was evaluated
Evaluations(a, b) ==
    Cardinality({i \in 1..Len(tbEvals) : tbEvals[i].p1 = a /\ tbEvals[i].p2 = b})

\* what holds of the call stack, the memo and the evaluations in every state
TiebreakBounded ==
    (pc \in {"tb_call", "tb_done"}) =>
        /\ \A i \in 1..Len(tbStack) :
               /\ tbStack[i].p1 \in 0..maxTotalTiebreakPoints
               /\ tbStack[i].p2 \in 0..maxTotalTiebreakPoints
               /\ tbStack[i].p1 + tbStack[i].p2 <= maxTotalTiebreakPoints
               /\ tbStack[i].p1 + tbStack[i].p2 = i - 1
        /\ \A i, j \in 1..Len(tbEvals) :
               (tbEvals[i].p1 = tbEvals[j].p1 /\ tbEvals[i].p2 = tbEvals[j].p2) => i = j
        /\ \A i \in 1..Len(tbEvals) :
               LET a == tbEvals[i].p1
                   b == tbEvals[i].p2
               IN  /\ a + b < maxTotalTiebreakPoints
                   /\ ~aWonTiebreak(a, b) /\ ~bWonTiebreak(a, b)
                   /\ memo[a][b] # MinusOne
        /\ \A a, b \in 0..maxTotalTiebreakPoints :
               /\ (a + b = maxTotalTiebreakPoints /\ memo[a][b] # MinusOne) =>
                      /\ memo[a][b] = Half
                      /\ ~aWonTiebreak(a, b) /\ ~bWonTiebreak(a, b)
               /\ a + b > maxTotalTiebreakPoints => memo[a][b] = MinusOne

\* what a call at 30 points returns: 1 or 0 when the tiebreak is decided, else 0.5
ReturnsAtCap ==
    (pc = "tb_call" /\ tbStack # <<>> /\ top.stage = "enter"
        /\ top.p1 + top.p2 = maxTotalTiebreakPoints)
    => (tbReturn' = IF aWonTiebreak(top.p1, top.p2) THEN One
                    ELSE IF bWonTiebreak(top.p1, top.p2) THEN 0
                    ELSE Half)

\* C23: for all inputs the tiebreak recursion terminates: it never evaluates a state
\* with a + b > 30, never indexes the memo table outside [0..30] x [0..30],
\* evaluates the recurrence of each non-terminal state at most once (memoized), and
\* returns 0.5 for every non-terminal state with a + b = 30 (a terminal state at 30
\* points, such as 16-14, still returns 1 or 0).
C23_TiebreakTerminates ==
    /\ []TiebreakBounded
    /\ [][ReturnsAtCap]_vars
    /\ <>(pc = "tb_done")

\* the solver has returned, with NaN as A's probability, after evaluating the 75
\* undecided points once each and capping 15-15
C23_Witness ==
    /\ pc = "tb_done"
    /\ pA = NaN
    /\ Len(tbEvals) = 75
    /\ memo[15][15] = Half
    /\ Evaluations(14, 14) = 1
    /\ memo[14][15] # MinusOne

\* the server of the k-th regular game of the set, k = 0, 1, 2, ...: the first
\* server when k is even, the other player when k is odd
AlternatingServer(k) ==
    IF k % 2 = 0 THEN firstServerGame(first) ELSE 3 - firstServerGame(first)

\* the games logged so far were served in alternation, and the next one will be
ServersAlternate ==
    (pc \in {"set_loop", "set_done"}) =>
        /\ \A k \in 1..Len(gameLog) : gameLog[k] = AlternatingServer(k - 1)
        /\ pc = "set_loop" => serverGame = AlternatingServer(Len(gameLog))
        /\ Len(gameLog) <= 12

\* a regular game is decided on the game-win probability of its server, the
\* tiebreak on the point probabilities with the server of the first game serving
\* the first point
GameUsesServerProbability ==
    (pc = "set_loop") =>
        IF set.AGames = 6 /\ set.BGames = 6
        THEN \E draw \in DrawSet :
                /\ tiebreak'.aServesFirst = (gameLog[1] = 1)
                /\ tiebreak'.draw = draw
                /\ set' = IF aWinsTiebreak(pA, pB, tiebreak'.aServesFirst, draw)
                          THEN SimulatedSet(set.AGames + 1, set.BGames)
                          ELSE SimulatedSet(set.AGames, set.BGames + 1)
        ELSE \E draw \in DrawSet :
                LET server == AlternatingServer(Len(gameLog))
                    serverWins ==
                        draw < (IF server = 1 THEN simulateGame(pA) ELSE simulateGame(pB))
                IN  set' = IF (server = 1) = serverWins
                           THEN SimulatedSet(set.AGames + 1, set.BGames)
                           ELSE SimulatedSet(set.AGames, set.BGames + 1)

\* C24: in simulateSet the server of the k-th regular game (k = 0, 1, 2, ...) is the
\* first server when k is even and the other player when k is odd, whoever won the
\* earlier games; the game-win probability used for a game is the one of its server;
\* and when 6-6 is reached the first tiebreak point is served by the player who
\* served the first game of the set.
C24_ServerAlternatesEveryGame ==
    /\ []ServersAlternate
    /\ [][GameUsesServerProbability]_vars

\* a set player 2 served first in and player 1 won in the tiebreak, after both
\* players won games on the other's serve
C24_Witness ==
    /\ pc = "set_done"
    /\ ~first
    /\ set = SimulatedSet(7, 6)
    /\ Len(gameLog) = 12
    /\ gameLog[1] = 2 /\ gameLog[12] = 1
    /\ ~tiebreak.aServesFirst /\ tiebreak.aWins
    /\ pA = Half /\ pB = Half

\* make([]SimulatedSet, 0, setsToWin*2-1)
SetResultsCapacity == setsToWin * 2 - 1

\* the sets appended so far fit the preallocated capacity, each has at most 13
\* counted games, and a returned match has at least setsToWin sets
MatchLengthBounded ==
    (pc \in {"match_loop", "match_done"}) =>
        /\ Len(matchResult.SetResults) <= SetResultsCapacity
        /\ \A i \in 1..Len(matchResult.SetResults) :
               LET s == matchResult.SetResults[i]
               IN  /\ s.AGames + s.BGames <= 13
                   /\ s.AGames + s.BGames = 13 => {s.AGames, s.BGames} = {6, 7}
        /\ pc = "match_done" =>
               /\ Len(matchResult.SetResults) >= setsToWin
               /\ Len(matchResult.SetResults) <= 2 * setsToWin - 1

\* C25: simulateSet ends after at most 13 counted games (12 regular games plus the
\* tiebreak) for every sequence of game outcomes, and simulateSingleMatch with
\* setsToWin in {2,3} ends after at least setsToWin and at most 2*setsToWin - 1 sets,
\* so the preallocated capacity of SetResults is never exceeded.
C25_SetAndMatchLengthBounded ==
    /\ MatchLengthBounded
    /\ pc = "match_loop" =>
           (Len(matchResult.SetResults) = SetResultsCapacity
                => matchIsOver(matchResult, setsToWin))

\* a returned best-of-five match that filled the capacity of five sets, the last
\* one decided in a tiebreak
C25_Witness ==
    /\ pc = "match_done"
    /\ setsToWin = 3
    /\ Len(matchResult.SetResults) = 5
    /\ matchResult.SetResults[5].AGames + matchResult.SetResults[5].BGames = 13

\* C26: every match produced by simulateSingleMatch that A wins without losing a set
\* (ASets = setsToWin, BSets = 0) has, by getMatchGames, strictly more total games
\* for A than for B, so the game-handicap line -0.5 counts that match for A; in
\* particular with pA = 1.0, pB = 0.0 and bestOf 3 every match has game totals (12, 0).
C26_StraightSetsWinnerLeadsGames ==
    \A i \in 1..Len(res) :
        (res[i].ASets = (bo \div 2) + 1 /\ res[i].BSets = 0) =>
            /\ getMatchGames(res[i].SetResults)[1] > getMatchGames(res[i].SetResults)[2]
            /\ i \in GameCovers(0 - 1)
            /\ (pA = One /\ pB = 0 /\ bo = 3) =>
                   getMatchGames(res[i].SetResults) = <<12, 0>>

\* the sample holds completed matches only: the two sides never have equally many sets
AllCompleted == \A i \in 1..Len(res) : res[i].ASets # res[i].BSets

\* the lines of a list of market lines that carry the (doubled) line value line2
LinesAt(lines, line2) == {k \in 1..Len(lines) : lines[k].Line2 = line2}

\* C27: for any non-empty sample of completed matches (exactly one side has
\* setsToWin sets, so ASets # BSets), the set-handicap lines -0.5 and +0.5 both have
\* ProbA equal to the moneyline ProbA.
C27_HalfSetHandicapIsMoneyline ==
    (pc = "derived" /\ Len(res) > 0 /\ AllCompleted) =>
        /\ Cardinality(LinesAt(markets.SetHandicaps, 0 - 1)) = 1
        /\ Cardinality(LinesAt(markets.SetHandicaps, 1)) = 1
        /\ \A k \in LinesAt(markets.SetHandicaps, 0 - 1) \cup LinesAt(markets.SetHandicaps, 1) :
               /\ markets.SetHandicaps[k].ProbA = markets.Moneyline.ProbA
               /\ markets.SetHandicaps[k].ProbB = markets.Moneyline.ProbB

\* a best-of-five sample of two completed matches, one won by each side
C27_Witness ==
    /\ pc = "derived"
    /\ bo = 5
    /\ Len(res) = 2
    /\ AllCompleted
    /\ res[1].ASets = 3 /\ res[2].BSets = 3
    /\ markets.Moneyline.ProbA = Half
    /\ \E k \in LinesAt(markets.SetHandicaps, 1) : markets.SetHandicaps[k].ProbA = Half

\* ProbA along a list of market lines, in list order
NonDecreasing(lines) ==
    \A k \in 1..(Len(lines) - 1) :
        /\ lines[k].Line2 < lines[k + 1].Line2
        /\ lines[k].ProbA <= lines[k + 1].ProbA
NonIncreasing(lines) ==
    \A k \in 1..(Len(lines) - 1) :
        /\ lines[k].Line2 < lines[k + 1].Line2
        /\ lines[k].ProbA >= lines[k + 1].ProbA

\* C28: for any non-empty sample, within the lists returned by GetSetHandicaps and
\* GetGameHandicaps ProbA is non-decreasing in list order (as the handicap
\* increases), and within the lists returned by GetSetTotals and GetGameTotals ProbA
\* (over) is non-increasing in list order (as the total line increases).
C28_MarketsAreMonotone ==
    (pc = "derived" /\ Len(res) > 0) =>
        /\ NonDecreasing(markets.SetHandicaps)
        /\ NonDecreasing(markets.GameHandicaps)
        /\ NonIncreasing(markets.SetOU)
        /\ NonIncreasing(markets.GameOU)

\* a best-of-five sample on which each of the four lists takes two different values
C28_Witness ==
    /\ pc = "derived"
    /\ bo = 5
    /\ Len(res) = 2
    /\ \E k \in 1..(Len(markets.SetHandicaps) - 1) :
         markets.SetHandicaps[k].ProbA < markets.SetHandicaps[k + 1].ProbA
    /\ \E k \in 1..(Len(markets.GameHandicaps) - 1) :
         markets.GameHandicaps[k].ProbA < markets.GameHandicaps[k + 1].ProbA
    /\ \E k \in 1..(Len(markets.SetOU) - 1) :
         markets.SetOU[k].ProbA > markets.SetOU[k + 1].ProbA
    /\ \E k \in 1..(Len(markets.GameOU) - 1) :
         markets.GameOU[k].ProbA > markets.GameOU[k + 1].ProbA

\* /stats: the number of recorded requests with Success # 1
ErrorCount ==
    Cardinality({i \in 1..Len(requestStats) : requestStats[i].Success # 1})

\* C29: a request rejected by validateInputs adds no entry to requestStats; and
\* because validation already restricts bestof to {3,5}, sim.SimulateMatch cannot
\* return an error inside handler, so every RequestStat ever recorded has
\* Success = 1 and Error = 0 and the error_count of /stats is always 0.
C29_OnlySuccessesAreRecorded ==
        /\ (validationOf(query) # ErrNil /\ pc # "handler") =>
               /\ pc = "responded"
               /\ status \in {StatusBadRequest, StatusInternalServerError}
               /\ requestStats = <<>> /\ added = <<>>
        /\ (pc = "sim_call") =>
               /\ bo \in {3, 5}
               /\ ~ENABLED SimulateMatchInvalid
        /\ ret.err \in {Idle, ErrNil}
        /\ \A i \in 1..Len(requestStats) :
               requestStats[i].Success = 1 /\ requestStats[i].Error = 0
        /\ ErrorCount = 0
        /\ Len(requestStats) = 1 <=> (pc = "responded" /\ status = StatusOK)

\* an accepted best-of-five request that has been answered and recorded
C29_Witness ==
    /\ pc = "responded"
    /\ status = StatusOK
    /\ bo = 5
    /\ Len(requestStats) = 1
    /\ requestStats[1].Success = 1
    /\ requestStats[1].Simulations = 2

\* requestStats as it was when j stats had been appended and no call was inside
\* addRequestStat
BufferAfter(j) == SubSeq(added, Max2(0, j - maxStats) + 1, j)

\* the mutex is held exactly by the goroutines inside a critical section: never by
\* one that is simulating or computing a summary
MutexHeldOnlyInCriticalSection ==
    /\ \A c \in Callers :
           (requestStatsMu = c) <=> (callers[c].pc \in {"evict", "append", "unlock"})
    /\ \A r \in Readers :
           (requestStatsMu = r) <=> (readers[r].pc \in {"copy", "unlock"})

\* statsCopy is requestStats at one instant and the summary counts every entry once
SummaryOfOneInstant ==
    \A r \in Readers :
        /\ (readers[r].pc \in {"unlock", "summarize"}) =>
               /\ \E j \in ServerPrefill..Len(added) : readers[r].statsCopy = BufferAfter(j)
               /\ Len(readers[r].statsCopy) <= maxStats
        /\ (readers[r].pc = "unlock") => readers[r].statsCopy = requestStats
        /\ (readers[r].pc = "idle") =>
               /\ readers[r].summary.TotalRequests = Len(readers[r].statsCopy)
               /\ readers[r].summary.TotalRequests <= maxStats
               /\ readers[r].summary.SuccessCount + readers[r].summary.ErrorCount
                      = readers[r].summary.TotalRequests

\* C30: statsHandler computes its summary from a copy of requestStats taken
\* atomically under requestStatsMu: with addRequestStat running concurrently,
\* total_requests equals the buffer length at one instant (at most 1000),
\* success_count + error_count = total_requests, and the mutex is never held while a
\* simulation runs or while the summary is computed, so every addRequestStat and
\* statsHandler call eventually completes.
C30_StatsSummaryIsAtomicSnapshot ==
    /\ [](pc = "server" => MutexHeldOnlyInCriticalSection /\ SummaryOfOneInstant)
    /\ \A c \in Callers : (callers[c].pc = "lock") ~> (callers[c].pc = "idle")
    /\ \A r \in Readers : (readers[r].pc = "lock") ~> (readers[r].pc = "idle")

\* a summary of the full buffer has been served while one handler is simulating and
\* another holds the mutex, between its eviction and its append
C30_Witness ==
    /\ pc = "server"
    /\ readers[3].pc = "idle"
    /\ readers[3].summary.TotalRequests = maxStats
    /\ readers[3].summary.SuccessCount = maxStats
    /\ callers[1].pc = "simulate"
    /\ callers[2].pc = "append"
    /\ Len(requestStats) = maxStats - 1

====
